---- MODULE Spec2Model ----
(***************************************************************************)
(* A model of scrape_icna_events.py: the ICNAEventsScraper class (the      *)
(* incremental event store, the date-range parser and the page loop) and   *)
(* main().                                                                 *)
(*                                                                         *)
(* Text is modelled by TLA+ strings, character for character.  The ICS     *)
(* file is the sequence of its lines (content.split('\n')).  TLA+ strings  *)
(* are ASCII: the en-dash U+2013 is written "~" and the em-dash U+2014 is  *)
(* written "^" (neither occurs otherwise in the texts of the model).       *)
(*                                                                         *)
(* The libraries the program calls are modelled by what they do at the     *)
(* call sites: pytz (localize, astimezone), datetime (strptime, strftime,  *)
(* replace, timedelta) and ics 0.7 (Event, Calendar.events, serialize),    *)
(* the version whose PRODID line generate_ics writes.                      *)
(***************************************************************************)
EXTENDS Integers, Sequences, FiniteSets, TLC

VARIABLES
    file,             \* the ICS file on disk: [st, lines]
    obj,              \* whether a scraper object has been constructed
    existing_events,  \* self.existing_events: the set of keys of the dict
    log,              \* what the process has printed, as a sequence of message tags
    call,             \* the last method call made on the object: its arguments and results;
                      \* of generate_ics also the file it found (before) and whether it
                      \* repeats the call before it (again)
    handed,           \* the number of events handed to generate_ics so far
    site,             \* the listing of the events page, newest first: a sequence of drafts
    pc,               \* where main() is
    all_events,       \* locals of scrape_all_pages_with_browser
    stop_scraping,
    total_pages,
    page_num,
    events_html,      \* the cards of the current page not yet iterated
    page_had_existing,
    observed,         \* history: the cards this run has processed, [page, draft]
    requested,        \* history: the pages this run has asked the site for
    written,          \* history: the [title, start] generate_ics has added to the file
    runs              \* the number of runs of main() started

store_vars == <<file, obj, existing_events, log, call, handed>>

scrape_vars ==
    <<all_events, stop_scraping, total_pages, page_num, events_html, page_had_existing,
      observed, requested>>

main_vars == <<site, pc, scrape_vars, written, runs>>

vars == <<store_vars, main_vars>>

(***************************************************************************)
(* Bounds of the model.                                                    *)
(***************************************************************************)
MaxHanded == 4    \* events handed to generate_ics in one behaviour, over all its calls
MaxPrior == 2     \* records in the file a behaviour starts from
MaxRuns == 2      \* runs of main() in one behaviour
MaxListing == 3   \* drafts on the events page
PageSize == 2     \* cards the site shows on one page
MaxTotalPages == 2    \* the largest page number the pagination links show

\* A local of the code: the value v under the name the code gives it in F.
With(v, F(_)) == CHOOSE r \in {F(x) : x \in {v}} : TRUE

(***************************************************************************)
(* Strings.                                                                *)
(***************************************************************************)
StartsWith(s, p) == Len(s) >= Len(p) /\ SubSeq(s, 1, Len(p)) = p

\* s[n:] of Python, n counted from 0.
DropPrefix(s, n) == SubSeq(s, n + 1, Len(s))

CharAt(s, i) == SubSeq(s, i, i)

DigitChars == "0123456789"

Digit(n) == CharAt(DigitChars, n + 1)

\* %02d and %04d of strftime.
Pad2(n) == Digit((n \div 10) % 10) \o Digit(n % 10)

Pad4(n) == Pad2(n \div 100) \o Pad2(n % 100)

(***************************************************************************)
(* Dates.  A naive datetime is [y, mo, d, h, mi, s, us]; an aware one has  *)
(* also off, its UTC offset in minutes.                                    *)
(***************************************************************************)
DaysFromCivil(y, m, d) ==
    LET yy == IF m <= 2 THEN y - 1 ELSE y
        era == yy \div 400
        yoe == yy - era * 400
        mp == (m + 9) % 12
        doy == (153 * mp + 2) \div 5 + d - 1
        doe == yoe * 365 + yoe \div 4 - yoe \div 100 + doy
    IN  era * 146097 + doe - 719468

CivilFromDays(z) ==
    LET zz == z + 719468
        era == zz \div 146097
        doe == zz - era * 146097
        yoe == (doe - doe \div 1460 + doe \div 36524 - doe \div 146096) \div 365
        doy == doe - (365 * yoe + yoe \div 4 - yoe \div 100)
        mp == (5 * doy + 2) \div 153
        d == doy - (153 * mp + 2) \div 5 + 1
        m == IF mp < 10 THEN mp + 3 ELSE mp - 9
        y == yoe + era * 400 + (IF m <= 2 THEN 1 ELSE 0)
    IN  [y |-> y, mo |-> m, d |-> d]

\* Minutes of the wall clock since 1970-01-01 00:00.
WallMinutes(dt) == (DaysFromCivil(dt.y, dt.mo, dt.d) * 24 + dt.h) * 60 + dt.mi

NaiveFromMinutes(m, s, us) ==
    LET c == CivilFromDays(m \div 1440)
    IN  [y |-> c.y, mo |-> c.mo, d |-> c.d, h |-> (m % 1440) \div 60, mi |-> m % 60,
         s |-> s, us |-> us]

Naive(y, mo, d, h, mi) == [y |-> y, mo |-> mo, d |-> d, h |-> h, mi |-> mi, s |-> 0, us |-> 0]

\* naive + timedelta(minutes = n)
PlusMinutes(dt, n) == NaiveFromMinutes(WallMinutes(dt) + n, dt.s, dt.us)

\* The first Sunday on or after day d of month mo (1970-01-01 was a Thursday).
SundayOnOrAfter(y, mo, d) ==
    LET n == DaysFromCivil(y, mo, d)
    IN  n + ((7 - ((n + 4) % 7)) % 7)

PST == -480

PDT == -420

\* pytz's America/Los_Angeles, the United States rule in force since 2007: daylight time
\* from the second Sunday of March, 02:00 PST, to the first Sunday of November, 02:00 PDT.
\* localize() is called with the default is_dst=False: a wall-clock time of the autumn
\* overlap (01:00-01:59) is taken as PST, and so is one of the spring gap (02:00-02:59).
LocalizeOffset(dt) ==
    LET w == WallMinutes(dt)
        dstStart == SundayOnOrAfter(dt.y, 3, 8) * 1440 + 180
        dstEnd == SundayOnOrAfter(dt.y, 11, 1) * 1440 + 60
    IN  IF dstStart <= w /\ w < dstEnd THEN PDT ELSE PST

\* self.timezone.localize(naive)
Localize(dt) ==
    [y |-> dt.y, mo |-> dt.mo, d |-> dt.d, h |-> dt.h, mi |-> dt.mi, s |-> dt.s,
     us |-> dt.us, off |-> LocalizeOffset(dt)]

\* aware.astimezone(pytz.utc)
AsUtc(dt) ==
    LET n == NaiveFromMinutes(WallMinutes(dt) - dt.off, dt.s, dt.us)
    IN  [y |-> n.y, mo |-> n.mo, d |-> n.d, h |-> n.h, mi |-> n.mi, s |-> n.s,
         us |-> n.us, off |-> 0]

\* a < b of two aware datetimes: the order of the instants.
Before(a, b) ==
    LET ma == WallMinutes(a) - a.off
        mb == WallMinutes(b) - b.off
    IN  \/ ma < mb
        \/ ma = mb /\ a.s < b.s
        \/ ma = mb /\ a.s = b.s /\ a.us < b.us

\* strftime('%Y%m%dT%H%M%SZ')
FormatIcsUtc(dt) ==
    Pad4(dt.y) \o Pad2(dt.mo) \o Pad2(dt.d) \o "T" \o Pad2(dt.h) \o Pad2(dt.mi)
        \o Pad2(dt.s) \o "Z"

\* strftime('%Y%m%d%H%M%S')
FormatUidTime(dt) ==
    Pad4(dt.y) \o Pad2(dt.mo) \o Pad2(dt.d) \o Pad2(dt.h) \o Pad2(dt.mi) \o Pad2(dt.s)

(***************************************************************************)
(* The store: _load_existing_events and _event_exists.                     *)
(***************************************************************************)
NoFile == [st |-> "absent", lines |-> <<>>]

\* A file that exists and whose read raises (a byte that does not decode in the
\* locale's encoding): lines are the lines a lenient reader would see.
UnreadableFile(lines) == [st |-> "undecodable", lines |-> lines]

TextFile(lines) == [st |-> "ok", lines |-> lines]

\* f"{event_summary}|{event_dtstart}"
EventKey(summary, dtstart) == summary \o "|" \o dtstart

\* One pass of the loop over the lines; st is [in_event, event_summary, event_dtstart, existing].
LoadLine(st, line) ==
    IF StartsWith(line, "BEGIN:VEVENT")
    THEN [st EXCEPT !.in_event = TRUE, !.event_summary = "", !.event_dtstart = ""]
    ELSE IF StartsWith(line, "END:VEVENT")
    THEN [st EXCEPT !.in_event = FALSE,
                    !.existing = IF st.event_summary # "" /\ st.event_dtstart # ""
                                 THEN @ \cup {EventKey(st.event_summary, st.event_dtstart)}
                                 ELSE @]
    ELSE IF st.in_event
    THEN IF StartsWith(line, "SUMMARY:")
         THEN [st EXCEPT !.event_summary = DropPrefix(line, 8)]
         ELSE IF StartsWith(line, "DTSTART:")
         THEN [st EXCEPT !.event_dtstart = DropPrefix(line, 8)]
         ELSE st
    ELSE st

RECURSIVE LoadLines(_, _, _)
LoadLines(lines, i, st) ==
    IF i > Len(lines) THEN st ELSE LoadLines(lines, i + 1, LoadLine(st, lines[i]))

LoadStart == [in_event |-> FALSE, event_summary |-> "", event_dtstart |-> "", existing |-> {}]

\* LoadExistingEvents without the handler of a failed read.
LoadExistingEventsLenient(f) ==
    IF f.st = "absent" THEN {} ELSE LoadLines(f.lines, 1, LoadStart).existing

\* The dict _load_existing_events returns, as the set of its keys.
LoadExistingEvents(f) ==
    IF f.st = "ok" THEN LoadLines(f.lines, 1, LoadStart).existing ELSE {}

\* The message _load_existing_events prints.
LoadMessage(f) ==
    CASE f.st = "ok" -> "Loaded existing events"
      [] f.st = "absent" -> "No existing ICS file found"
      [] OTHER -> "Error reading existing ICS file"

\* EventExistsKey without astimezone(pytz.utc).
EventExistsKeyLocal(title, start) == EventKey(title, FormatIcsUtc(start))

EventExistsKey(title, start) == EventKey(title, FormatIcsUtc(AsUtc(start)))

\* _event_exists(title, start) on a scraper whose existing_events is existing.
EventExists(existing, title, start) == EventExistsKey(title, start) \in existing

(***************************************************************************)
(* The ics library at the call sites of generate_ics.                      *)
(***************************************************************************)
\* ics.utils.escape_string: the escaping of a TEXT value.
RECURSIVE EscapeString(_)
EscapeString(s) ==
    IF s = "" THEN ""
    ELSE LET c == CharAt(s, 1)
             e == CASE c = "\\" -> "\\\\"
                    [] c = ";" -> "\\;"
                    [] c = "," -> "\\,"
                    [] c = "\n" -> "\\n"
                    [] OTHER -> c
         IN  e \o EscapeString(DropPrefix(s, 1))

\* hashlib.md5(title.encode()).hexdigest()[:8], for the titles of the model.
TitleHash(title) ==
    CASE title = "Test Event 1" -> "b37f8e5f"
      [] title = "Test Event 2" -> "08f95881"
      [] title = "Test Event 3" -> "f47c8980"
      [] title = "A,B" -> "6c30b421"
      [] title = "Eid" -> "58a9b4be"
      [] title = "" -> "d41d8cd9"
      [] OTHER -> "5f8a6c4b"

\* The parts of the description, joined by '\n'.
EventDescription(event_data) ==
    LET d == event_data.description
        u == IF event_data.url # "" THEN "\n\nMore info: " \o event_data.url ELSE ""
    IN  IF d # "" /\ u # "" THEN d \o "\n" \o u ELSE d \o u

\* None, as a function returns it and as the value of a key of a dict.
None == [ok |-> FALSE]

\* The Event generate_ics builds from one dict of newEvents.
BuildEvent(event_data) ==
    [name |-> event_data.title,
     begin |-> event_data.start,
     end |-> event_data.end,
     location |-> event_data.location,
     description |-> EventDescription(event_data),
     uid |-> FormatUidTime(event_data.start) \o "-" \o TitleHash(event_data.title)]

EventKeys == {"title", "start", "end", "location", "description", "url"}

\* Whether the loop body reaches calendar.events.add for this dict.  A key that is not
\* there raises KeyError, which the except of the loop catches.  An end before the begin
\* is refused (by the Event.end setter, and again by the explicit test).  Event.end of
\* an Event whose end was set to None is its begin (an instant event), so "not
\* event.end" is false whenever the begin is there.
EventIsValid(event_data) ==
    /\ EventKeys \subseteq DOMAIN event_data
    /\ event_data.start # None
    /\ event_data.end # None => ~Before(event_data.end, event_data.start)

\* calendar.events.add(event): calendar.events is a set, and two Events are equal when
\* their uids are; adding an Event equal to a member leaves the set as it was.  The set
\* is kept as the sequence of its members in the order they were added.
CalendarAdd(events, event) ==
    IF \E i \in 1..Len(events) : events[i].uid = event.uid
    THEN events
    ELSE Append(events, event)

\* The loop over newEvents: [events, new_count, skipped].
RECURSIVE BuildCalendar(_, _, _)
BuildCalendar(newEvents, i, st) ==
    IF i > Len(newEvents) THEN st
    ELSE IF EventIsValid(newEvents[i])
    THEN BuildCalendar(newEvents, i + 1,
             [st EXCEPT !.events = CalendarAdd(@, BuildEvent(newEvents[i])),
                        !.new_count = @ + 1])
    ELSE BuildCalendar(newEvents, i + 1, [st EXCEPT !.skipped = @ + 1])

BuildStart == [events |-> <<>>, new_count |-> 0, skipped |-> 0]

OptionalLine(prefix, text) == IF text = "" THEN <<>> ELSE <<prefix \o EscapeString(text)>>

\* The lines of one VEVENT as ics 0.7 serializes it.
SerializeEvent(e) ==
    <<"BEGIN:VEVENT">>
        \o OptionalLine("DESCRIPTION:", e.description)
        \o (IF e.end # None THEN <<"DTEND:" \o FormatIcsUtc(AsUtc(e.end))>> ELSE <<>>)
        \o OptionalLine("LOCATION:", e.location)
        \o <<"DTSTART:" \o FormatIcsUtc(AsUtc(e.begin))>>
        \o OptionalLine("SUMMARY:", e.name)
        \o <<"UID:" \o e.uid, "END:VEVENT">>

RECURSIVE SerializeEvents(_, _)
SerializeEvents(events, order) ==
    IF order = <<>> THEN <<>>
    ELSE SerializeEvent(events[Head(order)]) \o SerializeEvents(events, Tail(order))

\* calendar.serialize().split('\n'); order is the order in which the set is iterated.
CalendarLines(events, order) ==
    <<"BEGIN:VCALENDAR", "VERSION:2.0", "PRODID:ics.py - http://git.io/lLljaA">>
        \o SerializeEvents(events, order)
        \o <<"END:VCALENDAR">>

\* The orders in which a set of n Events can be iterated.
IterationOrders(n) ==
    {o \in [1..n -> 1..n] : \A i, j \in 1..n : o[i] = o[j] => i = j}

(***************************************************************************)
(* generate_ics.                                                           *)
(***************************************************************************)
\* ExtractLine without current_event_lines.append(line) at END:VEVENT.
ExtractLineNoEnd(st, line) ==
    IF StartsWith(line, "BEGIN:VEVENT")
    THEN [st EXCEPT !.in_event = TRUE, !.current_event_lines = <<line>>]
    ELSE IF StartsWith(line, "END:VEVENT")
    THEN [st EXCEPT !.in_event = FALSE,
                    !.current_event_lines = <<>>,
                    !.existing_event_text = @ \o st.current_event_lines,
                    !.existing_count = @ + 1]
    ELSE IF st.in_event
    THEN [st EXCEPT !.current_event_lines = Append(@, line)]
    ELSE st

\* One pass of the loop that extracts the existing VEVENT blocks; st is
\* [in_event, current_event_lines, existing_event_text, existing_count], the text kept
\* as the sequence of its lines.
ExtractLine(st, line) ==
    IF StartsWith(line, "BEGIN:VEVENT")
    THEN [st EXCEPT !.in_event = TRUE, !.current_event_lines = <<line>>]
    ELSE IF StartsWith(line, "END:VEVENT")
    THEN [st EXCEPT !.in_event = FALSE,
                    !.current_event_lines = <<>>,
                    !.existing_event_text = @ \o Append(st.current_event_lines, line),
                    !.existing_count = @ + 1]
    ELSE IF st.in_event
    THEN [st EXCEPT !.current_event_lines = Append(@, line)]
    ELSE st

RECURSIVE ExtractLines(_, _, _)
ExtractLines(lines, i, st) ==
    IF i > Len(lines) THEN st ELSE ExtractLines(lines, i + 1, ExtractLine(st, lines[i]))

ExtractStart ==
    [in_event |-> FALSE, current_event_lines |-> <<>>, existing_event_text |-> <<>>,
     existing_count |-> 0]

\* ExistingEvents with the first VEVENT block of the file passed over.
ExistingEventsButFirst(f) ==
    LET E == {j \in 1..Len(f.lines) : StartsWith(f.lines[j], "END:VEVENT")}
        first == IF E = {} THEN Len(f.lines) ELSE CHOOSE j \in E : \A k \in E : j <= k
    IN  IF f.st = "ok"
        THEN ExtractLines(SubSeq(f.lines, first + 1, Len(f.lines)), 1, ExtractStart)
        ELSE ExtractStart

\* The first part of generate_ics: what it keeps of the file it finds.
ExistingEvents(f) ==
    IF f.st = "ok" THEN ExtractLines(f.lines, 1, ExtractStart) ELSE ExtractStart

ExistingMessage(f) ==
    CASE f.st = "ok" -> "Preserved existing events"
      [] f.st = "absent" -> "No existing calendar file found"
      [] OTHER -> "Could not load existing events"

\* for line in calendar_lines[3:-1]: the lines that are written.
RECURSIVE WrittenCalendarLines(_, _)
WrittenCalendarLines(calendar_lines, i) ==
    IF i > Len(calendar_lines) - 1 THEN <<>>
    ELSE LET line == calendar_lines[i]
         IN  (IF line # "" /\ ~StartsWith(line, "VERSION:") /\ ~StartsWith(line, "PRODID:")
              THEN <<line>> ELSE <<>>)
             \o WrittenCalendarLines(calendar_lines, i + 1)

CalendarHeader ==
    <<"BEGIN:VCALENDAR", "VERSION:2.0", "PRODID:ics.py - http://git.io/lLljaA",
      "COMMENT:Generated at now">>

\* WrittenLines with the existing events never written back.
WrittenLinesNewOnly(calendar_lines, existing_event_text) ==
    CalendarHeader \o WrittenCalendarLines(calendar_lines, 4) \o <<"END:VCALENDAR">>

\* WrittenLines with calendar_lines[4:-1] for calendar_lines[3:-1].
WrittenLinesSliceOff(calendar_lines, existing_event_text) ==
    CalendarHeader
        \o WrittenCalendarLines(calendar_lines, 5)
        \o existing_event_text
        \o <<"END:VCALENDAR">>

\* WrittenLines with the existing events written before the new ones.
WrittenLinesOldFirst(calendar_lines, existing_event_text) ==
    CalendarHeader
        \o existing_event_text
        \o WrittenCalendarLines(calendar_lines, 4)
        \o <<"END:VCALENDAR">>

\* The lines generate_ics writes: the header, the new events, the existing events, the end.
WrittenLines(calendar_lines, existing_event_text) ==
    CalendarHeader
        \o WrittenCalendarLines(calendar_lines, 4)
        \o existing_event_text
        \o <<"END:VCALENDAR">>

\* generate_ics without its read of the file: nothing is kept and nothing is printed.
GenerateIcsWithoutRead(newEvents, f, order) ==
    LET built == BuildCalendar(newEvents, 1, BuildStart)
    IN  [file |-> TextFile(WrittenLines(CalendarLines(built.events, order), <<>>)),
         existing_count |-> 0,
         new_count |-> built.new_count,
         skipped |-> built.skipped,
         printed |-> <<>>]

\* generate_ics(newEvents, filename) on file f, the set of new Events iterated in order.
GenerateIcs(newEvents, f, order) ==
    LET old == ExistingEvents(f)
        built == BuildCalendar(newEvents, 1, BuildStart)
    IN  [file |-> TextFile(WrittenLines(CalendarLines(built.events, order),
                                        old.existing_event_text)),
         existing_count |-> old.existing_count,
         new_count |-> built.new_count,
         skipped |-> built.skipped,
         printed |-> <<ExistingMessage(f)>>]

(***************************************************************************)
(* parse_date_string.  Positions in a string count from 1; a position 0    *)
(* means that the match failed.                                            *)
(***************************************************************************)
EnDash == "~"

EmDash == "^"

IsSpace(c) == c \in {" ", "\t", "\n"}

IsDigit(c) == c \in {"0", "1", "2", "3", "4", "5", "6", "7", "8", "9"}

DigitVal(c) == CHOOSE n \in 0..9 : Digit(n) = c

\* The character at position i, "" when there is none.
At(s, i) == IF 1 <= i /\ i <= Len(s) THEN CharAt(s, i) ELSE ""

UpperChars == "ABCDEFGHIJKLMNOPQRSTUVWXYZ"

LowerChars == "abcdefghijklmnopqrstuvwxyz"

LowerChar(c) ==
    LET K == {k \in 1..26 : CharAt(UpperChars, k) = c}
    IN  IF K = {} THEN c ELSE CharAt(LowerChars, CHOOSE k \in K : TRUE)

RECURSIVE LowerStr(_)
LowerStr(s) == IF s = "" THEN "" ELSE LowerChar(CharAt(s, 1)) \o LowerStr(DropPrefix(s, 1))

\* str.strip()
RECURSIVE LStrip(_)
LStrip(s) == IF s # "" /\ IsSpace(CharAt(s, 1)) THEN LStrip(DropPrefix(s, 1)) ELSE s

RECURSIVE RStrip(_)
RStrip(s) ==
    IF s # "" /\ IsSpace(CharAt(s, Len(s))) THEN RStrip(SubSeq(s, 1, Len(s) - 1)) ELSE s

Strip(s) == RStrip(LStrip(s))

\* re.sub(r'\s+', ' ', s)
RECURSIVE NormalizeWhitespace(_)
NormalizeWhitespace(s) ==
    IF s = "" THEN ""
    ELSE IF IsSpace(CharAt(s, 1)) THEN " " \o NormalizeWhitespace(LStrip(s))
    ELSE CharAt(s, 1) \o NormalizeWhitespace(DropPrefix(s, 1))

IsSeparator(c) == c = EnDash \/ c = EmDash

\* '–' in date_str or '—' in date_str
HasSeparator(s) == \E i \in 1..Len(s) : IsSeparator(CharAt(s, i))

\* re.split(r'[–—]', date_str)
RECURSIVE SplitParts(_, _)
SplitParts(s, cur) ==
    IF s = "" THEN <<cur>>
    ELSE IF IsSeparator(CharAt(s, 1)) THEN <<cur>> \o SplitParts(DropPrefix(s, 1), "")
    ELSE SplitParts(DropPrefix(s, 1), cur \o CharAt(s, 1))

\* The segment as it is, with its zone token.
StripZoneOff(s) == s

\* re.sub(r'\s+(PDT|PST)$', '', s)
StripZone(s) ==
    LET n == Len(s)
    IN  IF n >= 4 /\ SubSeq(s, n - 2, n) \in {"PDT", "PST"} /\ IsSpace(CharAt(s, n - 3))
        THEN RStrip(SubSeq(s, 1, n - 3))
        ELSE s

RECURSIVE SpacesEnd(_, _)
SpacesEnd(s, i) == IF IsSpace(At(s, i)) THEN SpacesEnd(s, i + 1) ELSE i

\* \s+ at position i: the position after the run.
Spaces1(s, i) == IF i = 0 \/ ~IsSpace(At(s, i)) THEN 0 ELSE SpacesEnd(s, i)

\* \s* at position i.
Spaces0(s, i) == IF i = 0 THEN 0 ELSE SpacesEnd(s, i)

\* The literal character c at position i.
Lit(s, i, c) == IF i # 0 /\ At(s, i) = c THEN i + 1 ELSE 0

MonthNames ==
    <<"january", "february", "march", "april", "may", "june", "july", "august",
      "september", "october", "november", "december">>

MonthAbbreviations ==
    <<"jan", "feb", "mar", "apr", "may", "jun", "jul", "aug", "sep", "oct", "nov", "dec">>

\* %B (abbreviated = FALSE) or %b at the start of s: [mo, next], mo = 0 when none matches.
MatchMonth(s, abbreviated) ==
    LET names == IF abbreviated THEN MonthAbbreviations ELSE MonthNames
        head == LowerStr(SubSeq(s, 1, IF Len(s) < 9 THEN Len(s) ELSE 9))
        K == {k \in 1..12 : StartsWith(head, names[k])}
    IN  IF K = {} THEN [mo |-> 0, next |-> 0]
        ELSE LET k == CHOOSE k \in K : TRUE
             IN  [mo |-> k, next |-> Len(names[k]) + 1]

TwoDigits(s, i) == 10 * DigitVal(At(s, i)) + DigitVal(At(s, i + 1))

AreDigits(s, i, n) == \A k \in i..(i + n - 1) : IsDigit(At(s, k))

\* %d followed by ',': 3[0-1]|[1-2]\d|0[1-9]|[1-9].  [val, next].
MatchDay(s, i) ==
    IF i = 0 THEN [val |-> 0, next |-> 0]
    ELSE IF AreDigits(s, i, 2) /\ TwoDigits(s, i) \in 1..31 /\ At(s, i + 2) = ","
    THEN [val |-> TwoDigits(s, i), next |-> i + 2]
    ELSE IF AreDigits(s, i, 1) /\ DigitVal(At(s, i)) \in 1..9 /\ At(s, i + 1) = ","
    THEN [val |-> DigitVal(At(s, i)), next |-> i + 1]
    ELSE [val |-> 0, next |-> 0]

\* %Y: \d\d\d\d.
MatchYear(s, i) ==
    IF i # 0 /\ AreDigits(s, i, 4)
    THEN [val |-> 100 * TwoDigits(s, i) + TwoDigits(s, i + 2), next |-> i + 4]
    ELSE [val |-> 0, next |-> 0]

\* %I followed by ':': 1[0-2]|0[1-9]|[1-9].
MatchHour12(s, i) ==
    IF i = 0 THEN [val |-> 0, next |-> 0]
    ELSE IF AreDigits(s, i, 2) /\ TwoDigits(s, i) \in 1..12 /\ At(s, i + 2) = ":"
    THEN [val |-> TwoDigits(s, i), next |-> i + 2]
    ELSE IF AreDigits(s, i, 1) /\ DigitVal(At(s, i)) \in 1..9 /\ At(s, i + 1) = ":"
    THEN [val |-> DigitVal(At(s, i)), next |-> i + 1]
    ELSE [val |-> 0, next |-> 0]

\* The end of a format: "%p" or " %p" at position i, and then the end of the string.
\* [ok, pm].
MatchAmPm(s, i, spaced) ==
    LET j == IF spaced THEN Spaces1(s, i) ELSE i
        w == LowerStr(SubSeq(s, j, IF j + 1 < Len(s) THEN j + 1 ELSE Len(s)))
    IN  IF j # 0 /\ j + 1 = Len(s) /\ w \in {"am", "pm"}
        THEN [ok |-> TRUE, pm |-> w = "pm"]
        ELSE [ok |-> FALSE, pm |-> FALSE]

\* %M and the rest of the format: [0-5]\d|\d.  [ok, val, pm].
MatchMinuteAmPm(s, i, spaced) ==
    IF i = 0 THEN [ok |-> FALSE, val |-> 0, pm |-> FALSE]
    ELSE IF AreDigits(s, i, 2) /\ TwoDigits(s, i) <= 59 /\ MatchAmPm(s, i + 2, spaced).ok
    THEN [ok |-> TRUE, val |-> TwoDigits(s, i), pm |-> MatchAmPm(s, i + 2, spaced).pm]
    ELSE IF AreDigits(s, i, 1) /\ MatchAmPm(s, i + 1, spaced).ok
    THEN [ok |-> TRUE, val |-> DigitVal(At(s, i)), pm |-> MatchAmPm(s, i + 1, spaced).pm]
    ELSE [ok |-> FALSE, val |-> 0, pm |-> FALSE]

IsLeapYear(y) == y % 4 = 0 /\ (y % 100 # 0 \/ y % 400 = 0)

DaysInMonth(y, mo) ==
    IF mo = 2 THEN (IF IsLeapYear(y) THEN 29 ELSE 28)
    ELSE IF mo \in {4, 6, 9, 11} THEN 30 ELSE 31

NoDate == [ok |-> FALSE]

\* datetime.strptime(s, fmt) for the four formats of the program:
\* "%B %d, %Y, %I:%M %p", with %b for %B (abbreviated) and "%M%p" for "%M %p" (~spaced).
\* [ok, dt]; ~ok stands for the ValueError.
Strptime(s, abbreviated, spaced) ==
    With(MatchMonth(s, abbreviated), LAMBDA m :
    With(MatchDay(s, Spaces1(s, m.next)), LAMBDA d :
    With(MatchYear(s, Spaces1(s, Lit(s, d.next, ","))), LAMBDA y :
    With(MatchHour12(s, Spaces1(s, Lit(s, y.next, ","))), LAMBDA h :
    With(MatchMinuteAmPm(s, Lit(s, h.next, ":"), spaced), LAMBDA mi :
        IF /\ m.next # 0 /\ d.next # 0 /\ y.next # 0 /\ h.next # 0 /\ mi.ok
           /\ y.val >= 1
           /\ d.val <= DaysInMonth(y.val, m.mo)
        THEN [ok |-> TRUE,
              dt |-> Naive(y.val, m.mo, d.val,
                           (h.val % 12) + (IF mi.pm THEN 12 ELSE 0), mi.val)]
        ELSE NoDate)))))

\* The first format of the list (pairs <<abbreviated, spaced>>) that parses s.
RECURSIVE TryFormats(_, _)
TryFormats(s, formats) ==
    IF formats = <<>> THEN NoDate
    ELSE With(Strptime(s, Head(formats)[1], Head(formats)[2]), LAMBDA r :
             IF r.ok THEN r ELSE TryFormats(s, Tail(formats)))

\* The formats tried for the start of a range and for a single date.
StartFormats == <<<<FALSE, TRUE>>, <<FALSE, FALSE>>>>

\* The formats tried for a full-date end.
EndFormats == <<<<TRUE, TRUE>>, <<FALSE, TRUE>>, <<TRUE, FALSE>>, <<FALSE, FALSE>>>>

\* re.match(r'^\d{1,2}:\d{2}\s*[AP]M', s): [ok, hour, minute, am_pm].
MatchTimeOnly(s) ==
    LET n == IF AreDigits(s, 1, 2) /\ At(s, 3) = ":" THEN 2
             ELSE IF AreDigits(s, 1, 1) /\ At(s, 2) = ":" THEN 1 ELSE 0
        j == Spaces0(s, n + 4)
    IN  IF n # 0 /\ AreDigits(s, n + 2, 2) /\ At(s, j) \in {"A", "P"} /\ At(s, j + 1) = "M"
        THEN [ok |-> TRUE,
              hour |-> IF n = 2 THEN TwoDigits(s, 1) ELSE DigitVal(At(s, 1)),
              minute |-> TwoDigits(s, n + 2),
              am_pm |-> At(s, j) \o "M"]
        ELSE [ok |-> FALSE, hour |-> 0, minute |-> 0, am_pm |-> ""]

\* The end of a range whose end part is a time only, without the step for overnight
\* events.
TimeOnlyEndSameDay(start_dt, t) ==
    With(IF t.am_pm = "PM" /\ t.hour # 12 THEN t.hour + 12
         ELSE IF t.am_pm = "AM" /\ t.hour = 12 THEN 0
         ELSE t.hour, LAMBDA hour :
        IF hour > 23 \/ t.minute > 59 THEN NoDate
        ELSE [ok |-> TRUE, dt |-> [start_dt EXCEPT !.h = hour, !.mi = t.minute]])

\* The end of a range whose end part is a time only.  [ok, dt]; ~ok stands for the
\* ValueError of start_dt.replace.
TimeOnlyEnd(start_dt, t) ==
    With(IF t.am_pm = "PM" /\ t.hour # 12 THEN t.hour + 12
         ELSE IF t.am_pm = "AM" /\ t.hour = 12 THEN 0
         ELSE t.hour, LAMBDA hour :
    With([start_dt EXCEPT !.h = hour, !.mi = t.minute], LAMBDA end_dt :
        IF hour > 23 \/ t.minute > 59 THEN NoDate
        ELSE [ok |-> TRUE,
              dt |-> IF WallMinutes(end_dt) < WallMinutes(start_dt)
                     THEN PlusMinutes(end_dt, 1440)
                     ELSE end_dt]))

\* An exception on its way out of the try block of parse_date_string.
Raised == [ok |-> FALSE, raised |-> TRUE]

\* The return of the range branch, had it put the earlier datetime first.
IntervalOrdered(start_dt, end_dt) ==
    IF WallMinutes(end_dt) < WallMinutes(start_dt)
    THEN [ok |-> TRUE, start |-> Localize(end_dt), end |-> Localize(start_dt)]
    ELSE [ok |-> TRUE, start |-> Localize(start_dt), end |-> Localize(end_dt)]

Interval(start_dt, end_dt) ==
    [ok |-> TRUE, start |-> Localize(start_dt), end |-> Localize(end_dt)]

\* The end of a range, from the end part of the text.
ParseEnd(start_dt, end_clean) ==
    With(MatchTimeOnly(Strip(end_clean)), LAMBDA t :
        IF t.ok THEN TimeOnlyEnd(start_dt, t) ELSE TryFormats(end_clean, EndFormats))

\* The branch of a text with a separator.
ParseRange(date_str) ==
    With(SplitParts(date_str, ""), LAMBDA parts :
    With(Strip(parts[1]), LAMBDA start_part :
    With(Strip(parts[2]), LAMBDA end_part :
    With(TryFormats(StripZone(start_part), StartFormats), LAMBDA start :
        IF ~start.ok THEN None
        ELSE With(ParseEnd(start.dt, StripZone(end_part)), LAMBDA end :
                 IF ~end.ok THEN Raised ELSE Interval(start.dt, end.dt))))))

\* The branch of a text without a separator: two hours.  When no format parses,
\* start_dt is not bound and "if not start_dt" raises UnboundLocalError.
ParseSingle(date_str) ==
    With(TryFormats(StripZone(date_str), StartFormats), LAMBDA start :
        IF ~start.ok THEN Raised
        ELSE Interval(start.dt, PlusMinutes(start.dt, 120)))

\* The body of the try block without date_str.strip().
ParseBodyUnstripped(text) ==
    With(NormalizeWhitespace(text), LAMBDA date_str :
        IF HasSeparator(date_str) THEN ParseRange(date_str) ELSE ParseSingle(date_str))

\* The body of the try block.
ParseBody(text) ==
    With(NormalizeWhitespace(Strip(text)), LAMBDA date_str :
        IF HasSeparator(date_str) THEN ParseRange(date_str) ELSE ParseSingle(date_str))

\* parse_date_string without its "except Exception".
ParseDateStringNoExcept(text) == ParseBody(text)

\* parse_date_string(date_str): [ok, start, end], or None.
ParseDateString(text) ==
    With(ParseBody(text), LAMBDA r : IF r = Raised THEN None ELSE r)

(***************************************************************************)
(* The files a behaviour starts from.                                      *)
(***************************************************************************)
\* The record create_test_ics_file(num_events) writes for index i.
TestRecord(num_events, i) ==
    LET day == Pad4(2025 - i) \o "12" \o Pad2(15 + i)
    IN  <<"BEGIN:VEVENT",
          "SUMMARY:Test Event " \o Digit(num_events - i),
          "DTSTART:" \o day \o "T100000Z",
          "DTEND:" \o day \o "T110000Z",
          "UID:" \o day \o "T100000Z-testuid",
          "DESCRIPTION:Test event description",
          "END:VEVENT">>

RECURSIVE TestRecords(_, _)
TestRecords(num_events, i) ==
    IF i >= num_events THEN <<>>
    ELSE TestRecord(num_events, i) \o TestRecords(num_events, i + 1)

\* The file create_test_ics_file(num_events) writes.
TestIcsFile(num_events) ==
    TextFile(CalendarHeader \o TestRecords(num_events, 0) \o <<"END:VCALENDAR">>)

\* A file whose writing stopped inside its last record.
TruncatedFile ==
    TextFile(CalendarHeader \o TestRecord(1, 0) \o <<"BEGIN:VEVENT", "SUMMARY:Eid">>)

\* The file of create_test_ics_file(1) with a byte that does not decode.
Undecodable == UnreadableFile(TestIcsFile(1).lines)

InitFiles ==
    {NoFile, Undecodable, TruncatedFile} \cup {TestIcsFile(n) : n \in 0..MaxPrior}

(***************************************************************************)
(* The events and the questions of the direct calls.                       *)
(***************************************************************************)
EventData(title, start, end, location, description, url) ==
    [title |-> title, start |-> Localize(start), end |-> Localize(end),
     location |-> location, description |-> description, url |-> url]

\* The event of the first record of create_test_ics_file(1).
EvKnown ==
    EventData("Test Event 1", Naive(2025, 12, 15, 2, 0), Naive(2025, 12, 15, 3, 0),
              "Hall", "Talk", "")

\* An event whose title and location need escaping, in daylight time.
EvComma ==
    EventData("A,B", Naive(2025, 7, 11, 10, 0), Naive(2025, 7, 11, 12, 0),
              "Hall; 2", "", "u")

\* An event whose end is before its start.
EvInverted ==
    EventData("Eid", Naive(2025, 7, 11, 10, 0), Naive(2025, 7, 11, 9, 0), "", "", "")

EventPool == {EvKnown, EvComma, EvInverted}

RECURSIVE SeqsUpTo(_, _)
SeqsUpTo(S, n) ==
    IF n = 0 THEN {<<>>}
    ELSE LET shorter == SeqsUpTo(S, n - 1)
         IN  shorter \cup {Append(q, x) : q \in shorter, x \in S}

NewEventLists == SeqsUpTo(EventPool, MaxHanded)

QueryTitles == {"Test Event 1", "A,B", ""}

\* 2025-12-15 02:00 PST; the same instant in UTC, and with microseconds; one second
\* later; and a summer time.
QueryStarts ==
    {Localize(Naive(2025, 12, 15, 2, 0)),
     [Naive(2025, 12, 15, 10, 0) EXCEPT !.us = 0] @@ [off |-> 0],
     [Naive(2025, 12, 15, 2, 0) EXCEPT !.us = 250] @@ [off |-> PST],
     [Naive(2025, 12, 15, 2, 0) EXCEPT !.s = 1] @@ [off |-> PST],
     Localize(Naive(2025, 7, 11, 10, 0))}

\* The locals of scrape_all_pages_with_browser outside a call of it.
NoScrape ==
    /\ all_events = <<>>
    /\ stop_scraping = FALSE
    /\ total_pages = 1
    /\ page_num = 0
    /\ events_html = <<>>
    /\ page_had_existing = FALSE
    /\ observed = <<>>
    /\ requested = 0

\* No main() is running: the methods are called directly.
NoMain ==
    /\ site = <<>>
    /\ pc = "idle"
    /\ NoScrape
    /\ written = {}
    /\ runs = 0

(***************************************************************************)
(* The direct calls, as the tests make them.  SpecApi: generate_ics called *)
(* on a scraper constructed on the file.  SpecExists: a scraper            *)
(* constructed on a file and asked _event_exists.                          *)
(***************************************************************************)
InitApi ==
    /\ file \in InitFiles
    /\ obj = TRUE
    /\ existing_events = LoadExistingEvents(file)
    /\ log = <<LoadMessage(file)>>
    /\ call = [op |-> "__init__"]
    /\ handed = 0
    /\ NoMain

\* scraper.generate_ics(newEvents, ics_file)
CallGenerateIcs ==
    /\ obj
    /\ \E newEvents \in {l \in NewEventLists : handed + Len(l) <= MaxHanded} :
       \E order \in IterationOrders(Len(BuildCalendar(newEvents, 1, BuildStart).events)) :
           \E r \in {GenerateIcs(newEvents, file, order)} :
               /\ handed' = handed + Len(newEvents)
               /\ file' = r.file
               /\ log' = r.printed
               /\ call' = [op |-> "generate_ics", newEvents |-> newEvents,
                           existing_count |-> r.existing_count,
                           new_count |-> r.new_count, before |-> file,
                           again |-> call.op = "generate_ics"
                                         /\ call.newEvents = newEvents]
    /\ UNCHANGED <<obj, existing_events, main_vars>>

NextApi == CallGenerateIcs

SpecApi == InitApi /\ [][NextApi]_vars

(***************************************************************************)
(* SpecBuild: generate_ics called with dicts that lack a time or a key.    *)
(***************************************************************************)
MaxBatch == 2

\* An event whose end is None.
EvNoEnd == [EvKnown EXCEPT !.title = "Open end", !.end = None]

\* An event whose start is None.
EvNoStart == [EvKnown EXCEPT !.title = "No start", !.start = None]

\* A dict without its 'location' key.
EvNoLocation ==
    [k \in EventKeys \ {"location"} |-> [EvKnown EXCEPT !.title = "Nowhere"][k]]

FaultyPool == EventPool \cup {EvNoEnd, EvNoStart, EvNoLocation}

FaultyLists == SeqsUpTo(FaultyPool, MaxBatch)

\* scraper.generate_ics(newEvents, ics_file)
CallGenerateIcsFaulty ==
    /\ obj
    /\ \E newEvents \in {l \in FaultyLists : handed + Len(l) <= MaxHanded} :
       \E order \in IterationOrders(Len(BuildCalendar(newEvents, 1, BuildStart).events)) :
           \E r \in {GenerateIcs(newEvents, file, order)} :
               /\ handed' = handed + Len(newEvents)
               /\ file' = r.file
               /\ log' = r.printed
               /\ call' = [op |-> "generate_ics", newEvents |-> newEvents,
                           existing_count |-> r.existing_count,
                           new_count |-> r.new_count, before |-> file,
                           order |-> order]
    /\ UNCHANGED <<obj, existing_events, main_vars>>

NextBuild == CallGenerateIcsFaulty

SpecBuild == InitApi /\ [][NextBuild]_vars

(***************************************************************************)
(* SpecWrite: the direct calls on a disk that can fail.  open(filename,    *)
(* 'w') truncates the file and the lines are then written into it one by   *)
(* one; an OSError of open leaves the file as it was, an exception of a    *)
(* later statement of the with block (f.write, calendar.serialize) leaves  *)
(* the lines written so far and goes up to the caller.                     *)
(***************************************************************************)
\* What a generate_ics that raises inside "with open(filename, 'w')" leaves of the
\* lines it was going to write: the first k of them.
PartialFile(lines, k) == TextFile(SubSeq(lines, 1, k))

\* scraper.generate_ics(newEvents, ics_file) raises while it persists.
CallGenerateIcsRaises ==
    /\ obj
    /\ \E newEvents \in {l \in NewEventLists : handed + Len(l) <= MaxHanded} :
       \E order \in IterationOrders(Len(BuildCalendar(newEvents, 1, BuildStart).events)) :
           \E r \in {GenerateIcs(newEvents, file, order)} :
               /\ handed' = handed + Len(newEvents)
               /\ \/ file' = file
                  \/ \E k \in 0..(Len(r.file.lines) - 1) :
                         file' = PartialFile(r.file.lines, k)
               /\ log' = r.printed
               /\ call' = [op |-> "generate_ics raised", newEvents |-> newEvents,
                           before |-> file, intended |-> r.file]
    /\ obj' = FALSE
    /\ UNCHANGED <<existing_events, main_vars>>

NextWrite == CallGenerateIcs \/ CallGenerateIcsRaises

SpecWrite == InitApi /\ [][NextWrite]_vars

\* The files generate_ics leaves when it is handed one event.
WrittenFiles ==
    {GenerateIcs(<<e>>, f, <<1>>).file : e \in {EvKnown, EvComma}, f \in InitFiles}

InitExists ==
    /\ file \in InitFiles \cup WrittenFiles
    /\ obj = FALSE
    /\ existing_events = {}
    /\ log = <<>>
    /\ call = [op |-> "none"]
    /\ handed = 0
    /\ NoMain

\* ICNAEventsScraper(ics_file)
NewScraper ==
    /\ ~obj
    /\ obj' = TRUE
    /\ existing_events' = LoadExistingEvents(file)
    /\ log' = <<LoadMessage(file)>>
    /\ call' = [op |-> "__init__"]
    /\ UNCHANGED <<file, handed, main_vars>>

\* scraper._event_exists(title, start)
CallEventExists ==
    /\ obj
    /\ \E title \in QueryTitles, start \in QueryStarts :
           call' = [op |-> "_event_exists", title |-> title, start |-> start,
                    ret |-> EventExists(existing_events, title, start)]
    /\ UNCHANGED <<file, obj, existing_events, log, handed, main_vars>>

NextExists == NewScraper \/ CallEventExists

SpecExists == InitExists /\ [][NextExists]_vars

(***************************************************************************)
(* The events page.  A card is the text of its five elements, as the loop  *)
(* of scrape_all_pages_with_browser extracts them.                         *)
(***************************************************************************)
Draft(title, date_text, location, description, event_url) ==
    [title |-> title, date_text |-> date_text, location |-> location,
     description |-> description, event_url |-> event_url]

\* The event of the first record of create_test_ics_file(1), as the page lists it.
DraftKnown == Draft("Test Event 1", "December 15, 2025, 2:00 AM", "Hall", "Talk", "")

\* A card whose title and location hold commas and a semicolon.
DraftComma ==
    Draft("A,B", "July 11, 2025, 10:00 AM PDT ~ Jul 27, 2025, 10:00 PM PDT",
          "Hall; 2, Folsom", "", "u")

\* A card without a date that parses.
DraftNoDate == Draft("Eid", "TBD", "", "", "")

\* The range of PAGE_3_EVENTS whose end is before its start.
DraftInverted == Draft("Eid", "May 1, 2022, 5:30 PM ~ Apr 06, 2022, 7:30 PM", "", "", "")

DraftPool == {DraftKnown, DraftComma, DraftNoDate, DraftInverted}

Listings == SeqsUpTo(DraftPool, MaxListing)

\* page.locator('.brxe-tnvmtb').all() while the site shows page n of the listing.
PageCards(listing, n) ==
    LET first == (n - 1) * PageSize + 1
        last == IF n * PageSize < Len(listing) THEN n * PageSize ELSE Len(listing)
    IN  IF first > Len(listing) THEN <<>> ELSE SubSeq(listing, first, last)

(***************************************************************************)
(* scrape_all_pages_with_browser and main.                                 *)
(***************************************************************************)
\* CardDates without "Fix invalid dates": the endpoints stay as they were parsed.
CardDatesNoSwap(card) ==
    With(IF card.date_text # "" THEN ParseDateString(card.date_text) ELSE None,
         LAMBDA date_info :
        IF ~date_info.ok THEN [ok |-> FALSE, swapped |-> FALSE]
        ELSE [ok |-> TRUE, swapped |-> FALSE,
              start |-> date_info.start, end |-> date_info.end])

\* The card as the loop leaves it after "Fix invalid dates": [ok, start, end, swapped].
CardDates(card) ==
    With(IF card.date_text # "" THEN ParseDateString(card.date_text) ELSE None,
         LAMBDA date_info :
        IF ~date_info.ok THEN [ok |-> FALSE, swapped |-> FALSE]
        ELSE IF Before(date_info.end, date_info.start)
        THEN [ok |-> TRUE, swapped |-> TRUE,
              start |-> date_info.end, end |-> date_info.start]
        ELSE [ok |-> TRUE, swapped |-> FALSE,
              start |-> date_info.start, end |-> date_info.end])

\* The body of the loop over the cards of a page, from the parse of the date on:
\* [outcome, swapped, event].
ScrapeCard(existing, card) ==
    With(CardDates(card), LAMBDA d :
        IF ~d.ok THEN [outcome |-> "skipped", swapped |-> FALSE]
        ELSE IF EventExists(existing, card.title, d.start)
        THEN [outcome |-> "existing", swapped |-> d.swapped]
        ELSE [outcome |-> "new", swapped |-> d.swapped,
              event |-> [title |-> card.title, start |-> d.start, end |-> d.end,
                         location |-> card.location, description |-> card.description,
                         url |-> card.event_url]])

CardMessages(r) ==
    (IF r.swapped THEN <<"Warning: End date before start, swapping dates">> ELSE <<>>)
        \o <<CASE r.outcome = "skipped" -> "Skipped (no valid date)"
               [] r.outcome = "existing" -> "Existing"
               [] r.outcome = "new" -> "NEW">>

MaxPages == 5

\* PageRange without the cap: range(1, total_pages + 1)
PageRangeNoCap(pages) == 1..pages

\* range(1, min(total_pages + 1, 6))
PageRange(pages) == 1..((IF pages + 1 < MaxPages + 1 THEN pages + 1 ELSE MaxPages + 1) - 1)

Buttons == {"clicked", "none", "failed"}

\* The end of the body of the page loop without "if page_had_existing: break".
AfterPageNoBreak(had_existing, page, pages, button) ==
    IF page < pages
    THEN (IF button = "clicked"
          THEN [break |-> FALSE, asked |-> 1]
          ELSE [break |-> TRUE, asked |-> IF button = "failed" THEN 1 ELSE 0])
    ELSE [break |-> FALSE, asked |-> 0]

\* The end of the body of the page loop: whether the loop is left, and how many pages
\* the site was asked for.  button is what the next-page button does: it is not there,
\* the click goes through, or the click raises.
AfterPage(had_existing, page, pages, button) ==
    IF had_existing THEN [break |-> TRUE, asked |-> 0]
    ELSE IF page < pages
    THEN (IF button = "clicked"
          THEN [break |-> FALSE, asked |-> 1]
          ELSE [break |-> TRUE, asked |-> IF button = "failed" THEN 1 ELSE 0])
    ELSE [break |-> FALSE, asked |-> 0]

AfterPageMessages(had_existing, page, pages, button) ==
    <<"Found new events on page">>
        \o (IF had_existing \/ page >= pages THEN <<>>
            ELSE CASE button = "clicked" -> <<"Navigating to next page">>
                   [] button = "failed" -> <<"Error clicking next button">>
                   [] button = "none" -> <<"No next button found, stopping">>)

\* The files a first run of main() can find: none, one that does not decode, one cut
\* short, and one written by an earlier run.
MainFiles == {NoFile, Undecodable, TruncatedFile, TestIcsFile(1)}

Init ==
    /\ file \in MainFiles
    /\ site \in Listings
    /\ obj = FALSE
    /\ existing_events = {}
    /\ log = <<>>
    /\ call = [op |-> "none"]
    /\ handed = 0
    /\ pc = "idle"
    /\ NoScrape
    /\ written = {}
    /\ runs = 0

\* A process that has ended takes its locals with it.
EndScrape ==
    /\ all_events' = <<>>
    /\ stop_scraping' = FALSE
    /\ total_pages' = 1
    /\ page_num' = 0
    /\ events_html' = <<>>
    /\ page_had_existing' = FALSE
    /\ observed' = <<>>
    /\ requested' = 0

\* main() is started: scraper = ICNAEventsScraper()
StartMain ==
    /\ pc \in {"idle", "done", "exit1", "crashed"}
    /\ runs < MaxRuns
    /\ runs' = runs + 1
    /\ obj' = TRUE
    /\ existing_events' = LoadExistingEvents(file)
    /\ log' = <<LoadMessage(file)>>
    /\ call' = [op |-> "__init__"]
    /\ pc' = "constructed"
    /\ UNCHANGED <<file, handed, site, scrape_vars, written>>

\* scrape_all_pages_with_browser up to the page loop: the page is loaded and the
\* pagination links are read.
LoadPage ==
    /\ pc = "constructed"
    /\ \E pages \in 1..MaxTotalPages : total_pages' = pages
    /\ all_events' = <<>>
    /\ stop_scraping' = FALSE
    /\ page_num' = 1
    /\ requested' = 1
    /\ pc' = "page"
    /\ UNCHANGED <<store_vars, site, events_html, page_had_existing, observed, written, runs>>

\* The head of the body of the page loop: the cards of the page are located.
ExtractPage ==
    /\ pc = "page"
    /\ IF stop_scraping
       THEN /\ pc' = "scraped"
            /\ UNCHANGED <<events_html, page_had_existing>>
       ELSE /\ events_html' = PageCards(site, page_num)
            /\ page_had_existing' = FALSE
            /\ pc' = IF PageCards(site, page_num) = <<>> THEN "page_end" ELSE "cards"
    /\ UNCHANGED <<store_vars, site, all_events, stop_scraping, total_pages, page_num,
                   observed, requested, written, runs>>

\* One turn of the loop over the cards of the page.
ScrapeNextCard ==
    /\ pc = "cards"
    /\ IF stop_scraping
       THEN /\ pc' = "page_end"
            /\ UNCHANGED <<log, all_events, stop_scraping, events_html,
                           page_had_existing, observed>>
       ELSE \E r \in {ScrapeCard(existing_events, Head(events_html))} :
                /\ observed' = Append(observed, [page |-> page_num,
                                                  draft |-> Head(events_html)])
                /\ log' = log \o CardMessages(r)
                /\ IF r.outcome = "existing"
                   THEN /\ page_had_existing' = TRUE
                        /\ stop_scraping' = TRUE
                        /\ pc' = "page_end"
                        /\ UNCHANGED <<all_events, events_html>>
                   ELSE /\ all_events' = IF r.outcome = "new"
                                         THEN Append(all_events, r.event)
                                         ELSE all_events
                        /\ events_html' = Tail(events_html)
                        /\ pc' = IF Tail(events_html) = <<>> THEN "page_end" ELSE "cards"
                        /\ UNCHANGED <<page_had_existing, stop_scraping>>
    /\ UNCHANGED <<file, obj, existing_events, call, handed, site, total_pages, page_num,
                   requested, written, runs>>

\* The end of the body of the page loop, and the step of the loop.
FinishPage ==
    /\ pc = "page_end"
    /\ \E button \in Buttons :
           \E r \in {AfterPage(page_had_existing, page_num, total_pages, button)} :
               /\ requested' = requested + r.asked
               /\ log' = log \o AfterPageMessages(page_had_existing, page_num,
                                                  total_pages, button)
               /\ IF ~r.break /\ page_num + 1 \in PageRange(total_pages)
                  THEN pc' = "page" /\ page_num' = page_num + 1
                  ELSE pc' = "scraped" /\ UNCHANGED page_num
    /\ UNCHANGED <<file, obj, existing_events, call, handed, site, all_events,
                   stop_scraping, total_pages, events_html, page_had_existing, observed,
                   written, runs>>

\* The browser raises (page.goto, the locators, inner_html): the exception leaves
\* scrape_all_pages_with_browser through its finally and ends main().
BrowserRaises ==
    /\ pc \in {"constructed", "page", "cards", "page_end"}
    /\ pc' = "crashed"
    /\ EndScrape
    /\ UNCHANGED <<store_vars, site, written, runs>>

\* ExitNoEvents with "if not events": the exit is taken whatever the snapshot holds.
ExitNoNewEvents ==
    /\ pc = "scraped"
    /\ all_events = <<>>
    /\ log' = Append(log, "No events found and no existing calendar!")
    /\ pc' = "exit1"
    /\ EndScrape
    /\ UNCHANGED <<file, obj, existing_events, call, handed, site, written, runs>>

\* main(): no event and no snapshot, sys.exit(1).
ExitNoEvents ==
    /\ pc = "scraped"
    /\ all_events = <<>> /\ existing_events = {}
    /\ log' = Append(log, "No events found and no existing calendar!")
    /\ pc' = "exit1"
    /\ EndScrape
    /\ UNCHANGED <<file, obj, existing_events, call, handed, site, written, runs>>

\* main() with a generate_ics that loads the snapshot again from the file it wrote.
MainGenerateIcsReloads ==
    /\ pc = "scraped"
    /\ ~(all_events = <<>> /\ existing_events = {})
    /\ \E order \in IterationOrders(Len(BuildCalendar(all_events, 1, BuildStart).events)) :
           \E r \in {GenerateIcs(all_events, file, order)} :
               /\ file' = r.file
               /\ existing_events' = LoadExistingEvents(r.file)
               /\ log' = log \o r.printed
               /\ call' = [op |-> "generate_ics", newEvents |-> all_events,
                           existing_count |-> r.existing_count,
                           new_count |-> r.new_count, before |-> file,
                           again |-> FALSE]
    /\ written' = written \cup
           {[title |-> all_events[i].title, start |-> all_events[i].start] :
                i \in {j \in 1..Len(all_events) : EventIsValid(all_events[j])}}
    /\ pc' = "done"
    /\ EndScrape
    /\ UNCHANGED <<obj, handed, site, runs>>

\* main(): scraper.generate_ics(events, "icna_events.ics")
MainGenerateIcs ==
    /\ pc = "scraped"
    /\ ~(all_events = <<>> /\ existing_events = {})
    /\ \E order \in IterationOrders(Len(BuildCalendar(all_events, 1, BuildStart).events)) :
           \E r \in {GenerateIcs(all_events, file, order)} :
               /\ file' = r.file
               /\ log' = log \o r.printed
               /\ call' = [op |-> "generate_ics", newEvents |-> all_events,
                           existing_count |-> r.existing_count,
                           new_count |-> r.new_count, before |-> file,
                           again |-> FALSE]
    /\ written' = written \cup
           {[title |-> all_events[i].title, start |-> all_events[i].start] :
                i \in {j \in 1..Len(all_events) : EventIsValid(all_events[j])}}
    /\ pc' = "done"
    /\ EndScrape
    /\ UNCHANGED <<obj, existing_events, handed, site, runs>>

Next ==
    \/ StartMain
    \/ LoadPage
    \/ ExtractPage
    \/ ScrapeNextCard
    \/ FinishPage
    \/ BrowserRaises
    \/ ExitNoEvents
    \/ MainGenerateIcs

Spec == Init /\ [][Next]_vars

(***************************************************************************)
(* The runs of main() from the first one on, against a listing that grows  *)
(* at its front between the runs.                                          *)
(***************************************************************************)
\* Before the first run there is no file.
\* The event of DraftKnown on a second card, with another location and description.
DraftMoved == Draft("Test Event 1", "December 15, 2025, 2:00 AM", "Annex", "", "u")

SitePool == DraftPool \cup {DraftMoved}

\* Whether two cards show the same event: the same title at the same date.
SameListedEvent(a, b) == a.title = b.title /\ a.date_text = b.date_text

InitGrow ==
    /\ file = NoFile
    /\ site \in SeqsUpTo(SitePool, MaxListing)
    /\ obj = FALSE
    /\ existing_events = {}
    /\ log = <<>>
    /\ call = [op |-> "none"]
    /\ handed = 0
    /\ pc = "idle"
    /\ NoScrape
    /\ written = {}
    /\ runs = 0

\* The site publishes an event it does not list yet: the listing is newest first, the
\* card goes to its front.
ListingGrows ==
    /\ pc \in {"idle", "done", "exit1", "crashed"}
    /\ Len(site) < MaxListing
    /\ \E card \in {c \in SitePool : \A i \in 1..Len(site) : ~SameListedEvent(c, site[i])} :
           site' = <<card>> \o site
    /\ UNCHANGED <<store_vars, pc, scrape_vars, written, runs>>

NextGrow ==
    \/ ListingGrows
    \/ StartMain
    \/ LoadPage
    \/ ExtractPage
    \/ ScrapeNextCard
    \/ FinishPage
    \/ BrowserRaises
    \/ ExitNoEvents
    \/ MainGenerateIcs

SpecGrow == InitGrow /\ [][NextGrow]_vars

(***************************************************************************)
(* Two runs of main() at the same time on one icna_events.ics.  Each       *)
(* process has its own scraper, its own snapshot and its own locals: in    *)
(* this specification obj, existing_events, all_events, pc and call are    *)
(* functions of the process.  generate_ics is two steps, its read of the   *)
(* file and its write: nothing holds the file between them.  Each run      *)
(* finds one page.                                                         *)
(***************************************************************************)
Procs == {1, 2}

\* The loop over the cards of a page run to its end: the events it appends.
RECURSIVE ScrapeCards(_, _)
ScrapeCards(existing, cards) ==
    IF cards = <<>> THEN <<>>
    ELSE With(ScrapeCard(existing, Head(cards)), LAMBDA r :
             IF r.outcome = "existing" THEN <<>>
             ELSE (IF r.outcome = "new" THEN <<r.event>> ELSE <<>>)
                      \o ScrapeCards(existing, Tail(cards)))

InitTwo ==
    /\ file \in {NoFile, TestIcsFile(1)}
    /\ site \in Listings
    /\ obj = [p \in Procs |-> FALSE]
    /\ existing_events = [p \in Procs |-> {}]
    /\ all_events = [p \in Procs |-> <<>>]
    /\ pc = [p \in Procs |-> "idle"]
    /\ call = [p \in Procs |-> [op |-> "none"]]
    /\ log = <<>>
    /\ handed = 0
    /\ stop_scraping = FALSE
    /\ total_pages = 1
    /\ page_num = 0
    /\ events_html = <<>>
    /\ page_had_existing = FALSE
    /\ observed = <<>>
    /\ requested = 0
    /\ written = {}
    /\ runs = 0

two_fixed ==
    <<log, handed, stop_scraping, total_pages, page_num, events_html, page_had_existing,
      observed, requested, runs>>

\* Process p: scraper = ICNAEventsScraper()
TwoStart(p) ==
    /\ pc[p] = "idle"
    /\ obj' = [obj EXCEPT ![p] = TRUE]
    /\ existing_events' = [existing_events EXCEPT ![p] = LoadExistingEvents(file)]
    /\ call' = [call EXCEPT ![p] = [op |-> "__init__"]]
    /\ pc' = [pc EXCEPT ![p] = "constructed"]
    /\ UNCHANGED <<file, site, all_events, written, two_fixed>>

\* Process p: events = scraper.scrape_all_pages_with_browser(), the site showing one page.
TwoScrape(p) ==
    /\ pc[p] = "constructed"
    /\ all_events' = [all_events EXCEPT
                          ![p] = ScrapeCards(existing_events[p], PageCards(site, 1))]
    /\ pc' = [pc EXCEPT ![p] = "scraped"]
    /\ UNCHANGED <<file, site, obj, existing_events, call, written, two_fixed>>

\* Process p: no event and no snapshot, sys.exit(1).
TwoExit(p) ==
    /\ pc[p] = "scraped"
    /\ all_events[p] = <<>> /\ existing_events[p] = {}
    /\ pc' = [pc EXCEPT ![p] = "exit1"]
    /\ UNCHANGED <<file, site, obj, existing_events, all_events, call, written, two_fixed>>

\* Process p: generate_ics up to its write: the records of the file are read.
TwoRead(p) ==
    /\ pc[p] = "scraped"
    /\ ~(all_events[p] = <<>> /\ existing_events[p] = {})
    /\ call' = [call EXCEPT ![p] =
                    [op |-> "generate_ics", newEvents |-> all_events[p], read |-> file,
                     existing_event_text |-> ExistingEvents(file).existing_event_text]]
    /\ pc' = [pc EXCEPT ![p] = "read"]
    /\ UNCHANGED <<file, site, obj, existing_events, all_events, written, two_fixed>>

\* TwoWrite with the records read again when the file is opened for the write.
TwoWriteReadsAgain(p) ==
    /\ pc[p] = "read"
    /\ \E order \in IterationOrders(Len(BuildCalendar(all_events[p], 1, BuildStart).events)) :
           \E f \in {GenerateIcs(all_events[p], file, order).file} :
               /\ file' = f
               /\ call' = [call EXCEPT ![p] =
                               [op |-> "generate_ics done", newEvents |-> all_events[p],
                                read |-> call[p].read, before |-> file, after |-> f]]
    /\ written' = written \cup
           {[title |-> all_events[p][i].title, start |-> all_events[p][i].start] :
                i \in {j \in 1..Len(all_events[p]) : EventIsValid(all_events[p][j])}}
    /\ pc' = [pc EXCEPT ![p] = "done"]
    /\ UNCHANGED <<site, obj, existing_events, all_events, two_fixed>>

\* Process p: the rest of generate_ics: the records are built and the file is written
\* with the existing records as they were read.
TwoWrite(p) ==
    /\ pc[p] = "read"
    /\ \E order \in IterationOrders(Len(BuildCalendar(all_events[p], 1, BuildStart).events)) :
           \E f \in {TextFile(WrittenLines(
                         CalendarLines(BuildCalendar(all_events[p], 1, BuildStart).events,
                                       order),
                         call[p].existing_event_text))} :
               /\ file' = f
               /\ call' = [call EXCEPT ![p] =
                               [op |-> "generate_ics done", newEvents |-> all_events[p],
                                read |-> call[p].read, before |-> file, after |-> f]]
    /\ written' = written \cup
           {[title |-> all_events[p][i].title, start |-> all_events[p][i].start] :
                i \in {j \in 1..Len(all_events[p]) : EventIsValid(all_events[p][j])}}
    /\ pc' = [pc EXCEPT ![p] = "done"]
    /\ UNCHANGED <<site, obj, existing_events, all_events, two_fixed>>

\* The site publishes an event it does not list yet, whatever the runs are doing.
TwoListingGrows ==
    /\ Len(site) < MaxListing
    /\ \E card \in {c \in DraftPool : \A i \in 1..Len(site) : ~SameListedEvent(c, site[i])} :
           site' = <<card>> \o site
    /\ UNCHANGED <<file, obj, existing_events, all_events, pc, call, written, two_fixed>>

NextTwo ==
    \/ TwoListingGrows
    \/ \E p \in Procs : TwoStart(p)
    \/ \E p \in Procs : TwoScrape(p)
    \/ \E p \in Procs : TwoExit(p)
    \/ \E p \in Procs : TwoRead(p)
    \/ \E p \in Procs : TwoWrite(p)

SpecTwo == InitTwo /\ [][NextTwo]_vars

(***************************************************************************)
(* main() on a site whose pagination reports more pages than the loop      *)
(* reads.                                                                  *)
(***************************************************************************)
MaxReported == 7

\* Listings of up to one page more than the loop reads: cards not in the file, with or
\* without a card of the file after them.
LongListings ==
    {[i \in 1..n |-> DraftComma] \o tail :
         n \in 0..(PageSize * (MaxPages + 1)), tail \in {<<>>, <<DraftKnown>>}}

InitPages ==
    /\ file \in {NoFile, TestIcsFile(1)}
    /\ site \in LongListings
    /\ obj = FALSE
    /\ existing_events = {}
    /\ log = <<>>
    /\ call = [op |-> "none"]
    /\ handed = 0
    /\ pc = "idle"
    /\ NoScrape
    /\ written = {}
    /\ runs = 0

\* scrape_all_pages_with_browser up to the page loop, the pagination links reporting up
\* to MaxReported pages.
LoadLongSite ==
    /\ pc = "constructed"
    /\ \E pages \in 1..MaxReported : total_pages' = pages
    /\ all_events' = <<>>
    /\ stop_scraping' = FALSE
    /\ page_num' = 1
    /\ requested' = 1
    /\ pc' = "page"
    /\ UNCHANGED <<store_vars, site, events_html, page_had_existing, observed, written, runs>>

NextPages ==
    \/ StartMain
    \/ LoadLongSite
    \/ ExtractPage
    \/ ScrapeNextCard
    \/ FinishPage
    \/ BrowserRaises
    \/ ExitNoEvents
    \/ MainGenerateIcs

SpecPages == InitPages /\ [][NextPages]_vars

(***************************************************************************)
(* parse_date_string called directly, as test_date_parsing.py calls it, on *)
(* a text and then on texts that differ from it in one respect.            *)
(* A text is written from a form: the month of each segment (0: the        *)
(* segment names no month), whether it is abbreviated, the rest of the     *)
(* segment, its zone token, and the separator ("": a single segment).      *)
(***************************************************************************)
MaxRun == 2

FullMonthNames ==
    <<"January", "February", "March", "April", "May", "June", "July", "August",
      "September", "October", "November", "December">>

MonthText(month, abbr) ==
    IF month = 0 THEN ""
    ELSE IF abbr THEN SubSeq(FullMonthNames[month], 1, 3)
    ELSE FullMonthNames[month]

ZoneTokens == {"", "PDT", "PST"}

ZoneText(zone) == IF zone = "" THEN "" ELSE " " \o zone

\* The start segments: <<month, rest>>.
StartSegments ==
    {<<4, " 12, 2025, 9:00 PM">>,
     <<3, " 9, 2025, 1:30 AM">>,
     <<11, " 2, 2025, 12:30 AM">>,
     <<12, " 31, 2025, 11:30 PM">>,
     <<0, "TBD">>}

\* The end segments that are a time only.
TimeOnlySegments ==
    {<<0, "9:05 PM">>, <<0, "9:00 PM">>, <<0, "7:30 AM">>, <<0, "12:00 AM">>,
     <<0, "1:15AM">>}

\* The end segments that are a full date.
FullDateSegments == {<<3, " 16, 2025, 7:30 AM">>, <<7, " 27, 2026, 10:00 PM">>}

\* The end segments that are neither.
OtherSegments ==
    {<<0, "">>, <<0, "TBD">>, <<0, "9:05 pm">>, <<0, "13:05 PM">>,
     <<0, "9:05 PM or later">>, <<0, "9:05 PM ~ 10:00 PM">>}

EndSegments == TimeOnlySegments \cup FullDateSegments \cup OtherSegments

Form(start, abbr, zone, sep, end, end_abbr, end_zone) ==
    [month |-> start[1], abbr |-> abbr, rest |-> start[2], zone |-> zone, sep |-> sep,
     end_month |-> end[1], end_abbr |-> end_abbr, end_rest |-> end[2],
     end_zone |-> end_zone]

\* A month that is not named has one way of being written.
WellFormed(form) ==
    /\ form.month = 0 => ~form.abbr
    /\ form.end_month = 0 => ~form.end_abbr

\* The forms of the first call: single date-times, ranges with an en-dash, and ranges
\* with an em-dash (these without zone tokens and with full month names).
DateForms ==
    {form \in
         {Form(start, abbr, zone, "", <<0, "">>, FALSE, "") :
              start \in StartSegments, abbr \in BOOLEAN, zone \in ZoneTokens}
         \cup
         {Form(start, abbr, zone, EnDash, end, end_abbr, end_zone) :
              start \in StartSegments, abbr \in BOOLEAN, zone \in ZoneTokens,
              end \in EndSegments, end_abbr \in BOOLEAN, end_zone \in ZoneTokens}
         \cup
         {Form(start, FALSE, "", EmDash, end, FALSE, "") :
              start \in StartSegments, end \in EndSegments} :
     WellFormed(form)}

\* The text the site shows for a form.
Text(form) ==
    MonthText(form.month, form.abbr) \o form.rest \o ZoneText(form.zone)
        \o (IF form.sep = "" THEN ""
            ELSE " " \o form.sep \o " " \o MonthText(form.end_month, form.end_abbr)
                     \o form.end_rest \o ZoneText(form.end_zone))

\* Runs of 2..MaxRun whitespace characters.
RECURSIVE SpaceRun(_)
SpaceRun(n) == IF n = 0 THEN "" ELSE " " \o SpaceRun(n - 1)

WhitespaceRuns == UNION {{SpaceRun(n), "\t" \o SpaceRun(n - 1)} : n \in 2..MaxRun}

\* The text with the space at position i replaced by run.
Widened(text, i, run) == SubSeq(text, 1, i - 1) \o run \o SubSeq(text, i + 1, Len(text))

\* The texts that differ from text in the whitespace of one place: a space replaced by
\* a run, or whitespace before or after the text.
Respaced(text) ==
    {Widened(text, i, run) : i \in {j \in 1..Len(text) : CharAt(text, j) = " "},
                             run \in WhitespaceRuns}
    \cup {run \o text : run \in WhitespaceRuns}
    \cup {text \o run : run \in WhitespaceRuns}

InitParse ==
    /\ file = NoFile
    /\ obj = TRUE
    /\ existing_events = {}
    /\ log = <<"No existing ICS file found">>
    /\ call = [op |-> "__init__"]
    /\ handed = 0
    /\ NoMain

\* One call of scraper.parse_date_string(text); edit tells how the text differs from
\* the text of the call before, whose result was `was'.
ParseCall(form, text, edit) ==
    \E r \in {ParseDateString(text)} :
        /\ call' = [op |-> "parse_date_string", form |-> form, text |-> text, ret |-> r,
                    edit |-> edit,
                    was |-> IF call.op = "parse_date_string" THEN call.ret ELSE None]
        /\ UNCHANGED <<file, obj, existing_events, log, handed, main_vars>>

\* The first call, on the text of a form.
ParseText ==
    /\ call.op = "__init__"
    /\ \E form \in DateForms : ParseCall(form, Text(form), "none")

\* A second call, on the text with the month of a segment written the other way.
ParseOtherMonthForm ==
    /\ call.op = "parse_date_string" /\ call.edit = "none"
    /\ \/ /\ call.form.month # 0
          /\ \E form \in {[call.form EXCEPT !.abbr = ~@]} :
                 ParseCall(form, Text(form), "start month")
       \/ /\ call.form.sep # "" /\ call.form.end_month # 0
          /\ \E form \in {[call.form EXCEPT !.end_abbr = ~@]} :
                 ParseCall(form, Text(form), "end month")

\* A second call, on the text with the zone token of a segment added, removed or
\* exchanged.
ParseOtherZone ==
    /\ call.op = "parse_date_string" /\ call.edit = "none"
    /\ \/ \E zone \in ZoneTokens \ {call.form.zone} :
              \E form \in {[call.form EXCEPT !.zone = zone]} :
                  ParseCall(form, Text(form), "zone")
       \/ /\ call.form.sep # ""
          /\ \E zone \in ZoneTokens \ {call.form.end_zone} :
                 \E form \in {[call.form EXCEPT !.end_zone = zone]} :
                     ParseCall(form, Text(form), "zone")

\* A second call, on the text with other whitespace in one place.
ParseRespaced ==
    /\ call.op = "parse_date_string" /\ call.edit = "none"
    /\ \E text \in Respaced(call.text) : ParseCall(call.form, text, "whitespace")

NextParse == ParseText \/ ParseOtherMonthForm \/ ParseOtherZone \/ ParseRespaced

SpecParse == InitParse /\ [][NextParse]_vars

(***************************************************************************)
(* What the claims speak of: the records of a file and the keys they carry.*)
(***************************************************************************)
IsBegin(line) == StartsWith(line, "BEGIN:VEVENT")

IsEnd(line) == StartsWith(line, "END:VEVENT")

\* The first line after line i that begins or ends a record; 0 when there is none.
NextMarker(lines, i) ==
    LET M == {j \in (i + 1)..Len(lines) : IsBegin(lines[j]) \/ IsEnd(lines[j])}
    IN  IF M = {} THEN 0 ELSE CHOOSE j \in M : \A k \in M : j <= k

\* The records of a text: its BEGIN:VEVENT ... END:VEVENT blocks, in order.
RECURSIVE RecordsFrom(_, _)
RecordsFrom(lines, i) ==
    IF i > Len(lines) THEN <<>>
    ELSE IF ~IsBegin(lines[i]) THEN RecordsFrom(lines, i + 1)
    ELSE LET j == NextMarker(lines, i)
         IN  IF j = 0 THEN <<>>
             ELSE IF IsEnd(lines[j])
             THEN <<SubSeq(lines, i, j)>> \o RecordsFrom(lines, j + 1)
             ELSE RecordsFrom(lines, j)

RecordsOf(f) == RecordsFrom(f.lines, 1)

\* The texts of the lines of a record that start with prefix.
FieldTexts(record, prefix) ==
    {DropPrefix(record[i], Len(prefix)) : i \in {j \in 1..Len(record) : StartsWith(record[j], prefix)}}

\* The identity keys a record carries (one, or none when it lacks a field).
RecordKeys(record) ==
    {EventKey(t, d) : t \in FieldTexts(record, "SUMMARY:") \ {""},
                      d \in FieldTexts(record, "DTSTART:") \ {""}}

CountRecord(records, r) == Cardinality({i \in 1..Len(records) : records[i] = r})

CountKey(records, k) == Cardinality({i \in 1..Len(records) : k \in RecordKeys(records[i])})

KeysOf(records) == UNION {RecordKeys(records[i]) : i \in 1..Len(records)}

RangeOf(q) == {q[i] : i \in 1..Len(q)}

\* a is b with some elements left out.
RECURSIVE IsSubsequence(_, _)
IsSubsequence(a, b) ==
    IF a = <<>> THEN TRUE
    ELSE IF b = <<>> THEN FALSE
    ELSE IF Head(a) = Head(b) THEN IsSubsequence(Tail(a), Tail(b))
    ELSE IsSubsequence(a, Tail(b))

IsGenerate == call.op = "generate_ics"

Readable(f) == f.st # "undecodable"

\* The records generate_ics writes for the events of a list that it accepts.
RECURSIVE NewRecords(_)
NewRecords(newEvents) ==
    IF newEvents = <<>> THEN <<>>
    ELSE (IF EventIsValid(Head(newEvents))
          THEN <<SerializeEvent(BuildEvent(Head(newEvents)))>> ELSE <<>>)
         \o NewRecords(Tail(newEvents))

(***************************************************************************)
(* The claims about the store.                                             *)
(***************************************************************************)
\* C1: a generate_ics call never loses an identity key: the key set
\* _load_existing_events reads from the file after any step contains the key set it read
\* before the step, so over any sequence of calls no key is ever lost.
C1_KeysNeverLost == [][LoadExistingEvents(file) \subseteq LoadExistingEvents(file')]_vars

C1_Witness ==
    /\ IsGenerate
    /\ call.new_count > 0
    /\ LoadExistingEvents(call.before) # {}
    /\ LoadExistingEvents(call.before) # LoadExistingEvents(file)

\* C2, as claimed: every record of the file before a generate_ics call is in the file
\* after it, with the same lines and in the same relative order.
C2_EveryPriorRecordKept ==
    IsGenerate => IsSubsequence(RecordsOf(call.before), RecordsOf(file))

\* C2, amended: the same of every file that can be read.
C2_ReadablePriorRecordsKept ==
    IsGenerate /\ Readable(call.before)
        => IsSubsequence(RecordsOf(call.before), RecordsOf(file))

C2_Witness ==
    /\ IsGenerate
    /\ Readable(call.before)
    /\ Len(RecordsOf(call.before)) >= 2
    /\ call.new_count > 0

\* C4, as claimed: generate_ics writes no record for an event whose identity key a
\* record of the file carries already: no key of a prior record is carried by more
\* records after the call than before it.
C4_KnownEventNotWrittenAgain ==
    IsGenerate =>
        \A k \in KeysOf(RecordsOf(call.before)) :
            CountKey(RecordsOf(file), k) <= CountKey(RecordsOf(call.before), k)

NewAndDistinct(newEvents, f) ==
    /\ \A i \in 1..Len(newEvents) : EventIsValid(newEvents[i])
    /\ \A i, j \in 1..Len(newEvents) :
           i # j => EventExistsKey(newEvents[i].title, newEvents[i].start)
                        # EventExistsKey(newEvents[j].title, newEvents[j].start)
    /\ \A i \in 1..Len(newEvents) :
           EventExistsKey(newEvents[i].title, newEvents[i].start) \notin KeysOf(RecordsOf(f))

\* The file holds n + m records: each prior record and each new record exactly once.
MergedExactly(newEvents, before, after) ==
    LET old == RecordsOf(before)
        new == NewRecords(newEvents)
        all == RecordsOf(after)
    IN  /\ Len(all) = Len(old) + Len(newEvents)
        /\ \A r \in RangeOf(all) \cup RangeOf(old) \cup RangeOf(new) :
               CountRecord(all, r) = CountRecord(old, r) + CountRecord(new, r)

\* C6, as claimed: on a file with n records and m new valid events with distinct keys
\* that are not in the file, the output holds exactly n + m records, each once.
C6_ExactlyNPlusM ==
    IsGenerate /\ NewAndDistinct(call.newEvents, call.before)
        => MergedExactly(call.newEvents, call.before, file)

\* C6, amended: the same of every file that can be read.
C6_ReadableExactlyNPlusM ==
    IsGenerate /\ Readable(call.before) /\ NewAndDistinct(call.newEvents, call.before)
        => MergedExactly(call.newEvents, call.before, file)

C6_Witness ==
    /\ IsGenerate
    /\ Readable(call.before)
    /\ NewAndDistinct(call.newEvents, call.before)
    /\ Len(call.newEvents) = 2
    /\ Len(RecordsOf(call.before)) = 2

\* C7: the file generate_ics writes is the header, then the new records, then the
\* records it kept of the file it found, then END:VCALENDAR; BEGIN:VCALENDAR and
\* END:VCALENDAR occur once each.
C7_NewThenOld ==
    IsGenerate =>
        LET all == RecordsOf(file)
            old == IF call.before.st = "ok" THEN RecordsOf(call.before) ELSE <<>>
            k == Len(all) - Len(old)
            lines == file.lines
        IN  /\ k >= 0
            /\ SubSeq(all, k + 1, Len(all)) = old
            /\ \A i \in 1..k : all[i] \in RangeOf(NewRecords(call.newEvents))
            /\ \A r \in RangeOf(NewRecords(call.newEvents)) : \E i \in 1..k : all[i] = r
            /\ {i \in 1..Len(lines) : StartsWith(lines[i], "BEGIN:VCALENDAR")} = {1}
            /\ {i \in 1..Len(lines) : StartsWith(lines[i], "END:VCALENDAR")} = {Len(lines)}
            /\ \A i \in 1..Len(lines) :
                   IsBegin(lines[i]) => i > Len(CalendarHeader)

C7_Witness ==
    /\ IsGenerate
    /\ call.existing_count >= 2
    /\ Len(RecordsOf(file)) = call.existing_count + 2
    /\ RecordsOf(file)[1] # RecordsOf(file)[2]

\* C8: a scraper constructed where no file exists has an empty key set (and is
\* constructed: that is no error); one constructed on a file whose read fails has an
\* empty key set too, and has printed the message of the failed read.
C8_MissingOrUnreadableIsEmpty ==
    obj =>
        /\ file.st = "absent" =>
               existing_events = {} /\ log = <<"No existing ICS file found">>
        /\ file.st = "undecodable" =>
               existing_events = {} /\ log = <<"Error reading existing ICS file">>

C8_Witness == obj /\ file.st = "undecodable" /\ Len(RecordsOf(file)) > 0

\* The file the scraper loaded holds a record whose SUMMARY text is title and whose
\* DTSTART text is start, converted to UTC, as YYYYMMDDTHHMMSSZ.
HasRecord(f, title, start) ==
    /\ f.st = "ok"
    /\ \E i \in 1..Len(RecordsOf(f)) :
           /\ title \in FieldTexts(RecordsOf(f)[i], "SUMMARY:")
           /\ FormatIcsUtc(AsUtc(start)) \in FieldTexts(RecordsOf(f)[i], "DTSTART:")

SameUtcSecond(a, b) ==
    /\ WallMinutes(a) - a.off = WallMinutes(b) - b.off
    /\ a.s = b.s

\* C9: _event_exists(title, start) is true exactly when the loaded file holds a record
\* with that SUMMARY text and that start in UTC to the second; two starts that denote
\* the same UTC second, whatever their zones and microseconds, get the same answer.
C9_ExistsIffRecord ==
    /\ call.op = "_event_exists" =>
           (call.ret <=> HasRecord(file, call.title, call.start))
    /\ obj =>
           \A title \in QueryTitles, a \in QueryStarts, b \in QueryStarts :
               SameUtcSecond(a, b) =>
                   (EventExists(existing_events, title, a)
                        <=> EventExists(existing_events, title, b))

C9_Witness ==
    /\ call.op = "_event_exists"
    /\ call.ret
    /\ call.start.off = 0

(***************************************************************************)
(* The runs of main().                                                     *)
(***************************************************************************)
\* C3: an event generate_ics has accepted and written is reported as existing by
\* _event_exists(title, start) on the scraper that the next run constructs on the file
\* (so a later run over the same listing stops at it and adds no record for it).
C3_WrittenEventKnownToNextRun ==
    pc = "constructed" =>
        \A e \in written : EventExists(existing_events, e.title, e.start)

InScrape == pc \in {"page", "cards", "page_end", "scraped"}

\* The dates of the cards of the site, after the swap of an inverted range.
DatesOfCard == [card \in SitePool |-> CardDates(card)]

\* Whether the identity key of a card is in the snapshot of the run.
CardKnown(card) ==
    /\ DatesOfCard[card].ok
    /\ EventKey(card.title, FormatIcsUtc(AsUtc(DatesOfCard[card].start)))
           \in existing_events

\* The position in observed of the first card whose key is in the snapshot; 0 when
\* there is none.
FirstKnown ==
    LET K == {i \in 1..Len(observed) : CardKnown(observed[i].draft)}
    IN  IF K = {} THEN 0 ELSE CHOOSE i \in K : \A j \in K : i <= j

\* The events of the first n observed cards that parse and are not known, in the order
\* of the cards.
RECURSIVE NewOfFirst(_)
NewOfFirst(n) ==
    IF n = 0 THEN <<>>
    ELSE LET card == observed[n].draft
             d == DatesOfCard[card]
         IN  NewOfFirst(n - 1)
                 \o (IF d.ok /\ ~CardKnown(card)
                     THEN <<[title |-> card.title, start |-> d.start, end |-> d.end,
                             location |-> card.location,
                             description |-> card.description, url |-> card.event_url]>>
                     ELSE <<>>)

\* C10: scan-and-stop.  The cards a run observes are the cards of the listing, in
\* order.  Once a card whose key is in the snapshot has been observed, it is the last
\* card observed and no page after its page is asked for; the list the scrape holds,
\* and returns, is the events of the parseable cards not yet known that are listed
\* before it (all those observed, when the run observes no known card).
C10_ScanAndStop ==
    InScrape =>
        /\ \A i \in 1..Len(observed) :
               /\ i <= Len(site) /\ observed[i].draft = site[i]
               /\ observed[i].page = ((i - 1) \div PageSize) + 1
        /\ \E k \in {FirstKnown} :
               IF k # 0
               THEN /\ Len(observed) = k
                    /\ requested = observed[k].page
                    /\ all_events = NewOfFirst(k - 1)
               ELSE all_events = NewOfFirst(Len(observed))

\* A scrape has returned after a known card that has a new card before it, a card
\* after it in the listing and a page after its page.
C10_Witness ==
    /\ pc = "scraped"
    /\ FirstKnown >= 2
    /\ all_events # <<>>
    /\ Len(site) > FirstKnown
    /\ total_pages > observed[FirstKnown].page

(***************************************************************************)
(* The listing over the runs.                                              *)
(***************************************************************************)
\* C11: at the start of each run, no card of the listing that parses and is listed
\* after a card the run knows (its key is in the snapshot) is itself unknown to the
\* run: stopping at the first known card leaves no listed event out of the store.
C11_NothingAfterKnownIsUnstored ==
    pc = "constructed" =>
        \A i \in 1..Len(site) : \A j \in (i + 1)..Len(site) :
            CardKnown(site[i]) /\ DatesOfCard[site[j]].ok => CardKnown(site[j])

\* C12: the file never holds two records with the same identity key (title and start
\* instant): of two drafts with the same title and start, seen in one run or in two,
\* only the first is persisted, whatever their locations and descriptions.
C12_OneRecordPerKey ==
    \A k \in KeysOf(RecordsOf(file)) : CountKey(RecordsOf(file), k) = 1

(***************************************************************************)
(* The results of parse_date_string.                                       *)
(***************************************************************************)
IsParse == call.op = "parse_date_string"

\* The minutes that pass from the instant a to the instant b.
ElapsedMinutes(a, b) == (WallMinutes(b) - b.off) - (WallMinutes(a) - a.off)

\* C13: a text without a separator that parses yields an end exactly two hours of
\* elapsed time after its start, on every date.
C13_SingleEndsTwoHoursLater ==
    IsParse /\ call.form.sep = "" /\ call.ret.ok =>
        ElapsedMinutes(call.ret.start, call.ret.end) = 120

\* The minute of the day an H:MM AM/PM text names.
ClockOf(segment) ==
    CASE segment = "9:05 PM" -> 21 * 60 + 5
      [] segment = "9:00 PM" -> 21 * 60
      [] segment = "7:30 AM" -> 7 * 60 + 30
      [] segment = "12:00 AM" -> 0
      [] segment = "1:15AM" -> 60 + 15

\* The call was on a range whose end segment is a time only.
IsTimeOnlyRange == IsParse /\ call.form.sep # "" /\ <<0, call.form.end_rest>> \in TimeOnlySegments

DayOf(dt) == DaysFromCivil(dt.y, dt.mo, dt.d)

\* C14: when the end segment is a time only, the end has the time of the segment, on
\* the date of the start when that is not before the start's time of day, and on the
\* day after the date of the start when it is.
C14_TimeOnlyEndRollsOneDay ==
    IsTimeOnlyRange /\ call.ret.ok =>
        \E s \in {call.ret.start}, e \in {call.ret.end}, t \in {ClockOf(call.form.end_rest)} :
            /\ e.h * 60 + e.mi = t
            /\ e.s = 0 /\ e.us = 0
            /\ DayOf(e) = DayOf(s) + (IF t < s.h * 60 + s.mi THEN 1 ELSE 0)

\* An end that was moved to the next day, in the next year.
C14_Witness ==
    /\ IsTimeOnlyRange /\ call.ret.ok
    /\ call.ret.end.y = call.ret.start.y + 1
    /\ DayOf(call.ret.end) = DayOf(call.ret.start) + 1

\* The date and time a full-date segment names.
WrittenDate(month, rest) ==
    CASE rest = " 12, 2025, 9:00 PM" -> Naive(2025, month, 12, 21, 0)
      [] rest = " 9, 2025, 1:30 AM" -> Naive(2025, month, 9, 1, 30)
      [] rest = " 2, 2025, 12:30 AM" -> Naive(2025, month, 2, 0, 30)
      [] rest = " 31, 2025, 11:30 PM" -> Naive(2025, month, 31, 23, 30)
      [] rest = " 16, 2025, 7:30 AM" -> Naive(2025, month, 16, 7, 30)
      [] rest = " 27, 2026, 10:00 PM" -> Naive(2026, month, 27, 22, 0)

\* The wall-clock fields of an aware datetime.
WallOf(dt) == [y |-> dt.y, mo |-> dt.mo, d |-> dt.d, h |-> dt.h, mi |-> dt.mi,
               s |-> dt.s, us |-> dt.us]

\* The call was on a range whose end segment is a full date.
IsFullDateRange == IsParse /\ call.form.sep # "" /\ call.form.end_month # 0

\* C15: when both sides carry a full date, the returned start is the start as written
\* and the returned end is the end as written, on its own date, also when that is
\* before the start: the interval is returned with end < start.
C15_InvertedRangeReturnedAsWritten ==
    IsFullDateRange /\ call.ret.ok =>
        /\ WallOf(call.ret.start) = WrittenDate(call.form.month, call.form.rest)
        /\ WallOf(call.ret.end) = WrittenDate(call.form.end_month, call.form.end_rest)

\* A range was returned whose end is before its start.
C15_Witness ==
    IsFullDateRange /\ call.ret.ok /\ Before(call.ret.end, call.ret.start)

(***************************************************************************)
(* Dates that do not parse, in the parser and in the loop over the cards.  *)
(***************************************************************************)
\* What parse_date_string returns for the date of each card.
ParsedOfCard ==
    [card \in SitePool |->
         IF card.date_text # "" THEN ParseDateString(card.date_text) ELSE None]

\* A return value of parse_date_string: None, or a dict of two aware datetimes.
IsReturnValue(r) ==
    \/ r = None
    \/ /\ DOMAIN r = {"ok", "start", "end"} /\ r.ok
       /\ r.start.off \in {PST, PDT} /\ r.end.off \in {PST, PDT}

\* The cards the run has come to: those of the pages before, and of this page.
CardsReached ==
    IF page_num * PageSize < Len(site) THEN page_num * PageSize ELSE Len(site)

\* C16: parse_date_string hands its caller None or an interval, never an exception;
\* the loop skips a card whose date does not parse (nothing is appended, the run does
\* not stop) and goes on with the next card, so that a page that holds no known card
\* is processed to its last card.
C16_FailedDateSkippedOnly ==
    /\ [](InScrape =>
              /\ \A i \in 1..Len(observed) : IsReturnValue(ParsedOfCard[observed[i].draft])
              /\ pc = "page_end" /\ ~page_had_existing => Len(observed) = CardsReached)
    /\ [][pc = "cards" /\ Len(observed') = Len(observed) + 1
              /\ ~ParsedOfCard[Head(events_html)].ok
          => /\ all_events' = all_events
             /\ events_html' = Tail(events_html)
             /\ stop_scraping' = FALSE /\ page_had_existing' = FALSE
             /\ pc' = IF Tail(events_html) = <<>> THEN "page_end" ELSE "cards"
             /\ log' = Append(log, "Skipped (no valid date)")]_vars

\* A card of a page was skipped for its date and a later card of the page was accepted.
C16_Witness ==
    /\ InScrape
    /\ \E i \in 1..Len(observed) : \E j \in (i + 1)..Len(observed) :
           /\ observed[i].page = observed[j].page
           /\ ~ParsedOfCard[observed[i].draft].ok
           /\ \E k \in 1..Len(all_events) :
                  /\ all_events[k].title = observed[j].draft.title
                  /\ all_events[k].location = observed[j].draft.location

(***************************************************************************)
(* Two calls on texts that differ in one respect.                          *)
(***************************************************************************)
\* C17: writing the month of a segment in the other form (the full name for the
\* abbreviation, or the abbreviation for the full name) does not change the result:
\* in the start of a range, in a full-date end, and in a single date-time.
C17_MonthFormMakesNoDifference ==
    IsParse /\ call.edit \in {"start month", "end month"} => call.ret = call.was

\* C18: adding, removing or exchanging the PDT or PST token of a segment does not
\* change the result; the offset of the start is the one of its date (standard time in
\* winter, daylight time from April to October), whatever the token says.
C18_ZoneTokenMakesNoDifference ==
    IsParse =>
        /\ call.edit = "zone" => call.ret = call.was
        /\ call.ret.ok /\ call.ret.start.mo \in {12, 1, 2} => call.ret.start.off = PST
        /\ call.ret.ok /\ call.ret.start.mo \in 4..10 => call.ret.start.off = PDT

\* A text whose token was changed to PDT parses to a start in standard time.
C18_Witness ==
    /\ IsParse /\ call.edit = "zone" /\ call.ret.ok
    /\ call.form.zone = "PDT" /\ call.form.end_zone = "PST"
    /\ call.ret.start.off = PST

\* C19: replacing a space of the text by a run of whitespace characters, or putting
\* whitespace before or after the text, does not change the result.
C19_WhitespaceMakesNoDifference ==
    IsParse /\ call.edit = "whitespace" => call.ret = call.was

\* A range with two spaces before its time-only end, parsed.
C19_Witness ==
    /\ IsTimeOnlyRange /\ call.edit = "whitespace" /\ call.ret.ok
    /\ \E i \in 1..(Len(call.text) - 3) : SubSeq(call.text, i, i + 3) = EnDash \o "  9"

\* C20: a range whose start segment is not a full date-time, or whose end segment is
\* neither a time only nor a full date-time (text after the time, a further separator
\* and segment, no end at all), does not parse.
C20_MalformedRangeFails ==
    IsParse /\ call.form.sep # ""
        /\ (call.form.month = 0 \/ <<0, call.form.end_rest>> \in OtherSegments)
    => ~call.ret.ok

(***************************************************************************)
(* Failures while persisting.                                              *)
(***************************************************************************)
\* C21: when generate_ics fails while it persists, the file is the complete prior
\* content or the complete new content: it is not left partially overwritten.
C21_FailedWriteLeavesOldOrNew ==
    call.op = "generate_ics raised" => file = call.before \/ file = call.intended

(***************************************************************************)
(* The snapshot and the file within a run.                                 *)
(***************************************************************************)
\* C22: the snapshot is what the load at construction read, and no later step of the
\* run changes it: not the parse of a date, the existence check, the acceptance of a
\* new event, nor generate_ics.
C22_SnapshotImmutable ==
    [][IF pc # "constructed" /\ pc' = "constructed"
       THEN existing_events' = LoadExistingEvents(file)
       ELSE existing_events' = existing_events]_vars

\* A run has accepted an event and written it: the file holds a key the snapshot of the
\* run does not.
C22_Witness ==
    /\ pc = "done" /\ IsGenerate /\ call.new_count > 0
    /\ existing_events # {}
    /\ LoadExistingEvents(file) \ existing_events # {}

(***************************************************************************)
(* Two runs at the same time.                                              *)
(***************************************************************************)
Range(s) == {s[i] : i \in 1..Len(s)}

\* C23: two runs interleaved on the same file are not safe.  Nothing locks the file and
\* nothing compares it with what was read: the file a run writes holds the records of
\* its new events and the records the run read, and no other, whatever the other run
\* wrote between the read and the write.  An interleaving therefore reaches a file that
\* lacks a record one of the runs wrote.
C23_WriteKeepsWhatWasRead ==
    \A p \in Procs :
        call[p].op = "generate_ics done" =>
            Range(RecordsOf(call[p].after))
                = Range(NewRecords(call[p].newEvents)) \cup Range(RecordsOf(call[p].read))

\* Both runs have written, and the file lacks a record of an event that the file written
\* by the other run held.
C23_Witness ==
    \E p \in Procs : \E q \in Procs \ {p} :
        /\ pc[p] = "done" /\ pc[q] = "done"
        /\ file = call[p].after
        /\ \E e \in written :
               /\ HasRecord(call[q].after, e.title, e.start)
               /\ ~HasRecord(file, e.title, e.start)

(***************************************************************************)
(* The events the loop accepts.                                            *)
(***************************************************************************)
\* The earlier and the later endpoint of a parsed interval.
EarlierEnd(r) == IF Before(r.end, r.start) THEN r.end ELSE r.start

LaterEnd(r) == IF Before(r.end, r.start) THEN r.start ELSE r.end

\* The file holds a record that starts at start and ends at end.
HasInterval(f, start, end) ==
    \E i \in 1..Len(RecordsOf(f)) :
        /\ FormatIcsUtc(AsUtc(start)) \in FieldTexts(RecordsOf(f)[i], "DTSTART:")
        /\ FormatIcsUtc(AsUtc(end)) \in FieldTexts(RecordsOf(f)[i], "DTEND:")

\* C24: every event the scrape loop accepts has end >= start.  For a card whose date
\* parses, the existence check is made with the earlier of the two parsed endpoints; the
\* event appended starts at the earlier and ends at the later endpoint; and the record
\* generate_ics writes for it starts at that earlier endpoint.
C24_AcceptedEventsOrdered ==
    /\ [](InScrape =>
              \A i \in 1..Len(all_events) : ~Before(all_events[i].end, all_events[i].start))
    /\ [][pc = "cards" /\ Len(observed') = Len(observed) + 1
              /\ ParsedOfCard[Head(events_html)].ok
          => LET card == Head(events_html)
                 r == ParsedOfCard[card]
             IN  IF EventExists(existing_events, card.title, EarlierEnd(r))
                 THEN all_events' = all_events /\ stop_scraping'
                 ELSE /\ all_events' =
                             Append(all_events,
                                    [title |-> card.title, start |-> EarlierEnd(r),
                                     end |-> LaterEnd(r), location |-> card.location,
                                     description |-> card.description,
                                     url |-> card.event_url])
                      /\ ~stop_scraping']_vars
    /\ [](pc = "done" /\ IsGenerate =>
              \A i \in 1..Len(call.newEvents) :
                  HasInterval(file, call.newEvents[i].start, call.newEvents[i].end))

\* A run accepted the card whose range is written end first, and the file holds its
\* record from the written end to the written start.
C24_Witness ==
    /\ pc = "done" /\ IsGenerate
    /\ \E i \in 1..Len(call.newEvents) :
           /\ call.newEvents[i].title = DraftInverted.title
           /\ call.newEvents[i].start = ParsedOfCard[DraftInverted].end
           /\ Before(ParsedOfCard[DraftInverted].end, ParsedOfCard[DraftInverted].start)
    /\ HasInterval(file, ParsedOfCard[DraftInverted].end, ParsedOfCard[DraftInverted].start)

(***************************************************************************)
(* The page loop.                                                          *)
(***************************************************************************)
InLoop == pc \in {"page", "cards", "page_end"}

\* What is left of the page loop at most: the turns of the loops still to come.
LoopMeasure ==
    IF ~InLoop THEN 0
    ELSE (MaxPages - page_num) * (PageSize + 3)
             + (CASE pc = "page" -> PageSize + 2
                  [] pc = "cards" -> Len(events_html) + 1
                  [] pc = "page_end" -> 1)

\* C25: a run extracts events from at most 5 pages, whatever page count the pagination
\* reports, and the page loop terminates: every step of the loop brings it nearer to its
\* end, and when the loop is left without an exception the run is at the last page or at
\* the 5th, or has observed a known event, or found no next button, or its click failed.
C25_AtMostFivePagesAndLoopEnds ==
    /\ [](InScrape =>
              /\ page_num <= MaxPages
              /\ \A i \in 1..Len(observed) : observed[i].page <= MaxPages)
    /\ [][InLoop => LoopMeasure' < LoopMeasure]_vars
    /\ [][InLoop /\ pc' = "scraped"
          => \/ page_num = total_pages
             \/ page_num = MaxPages
             \/ page_had_existing
             \/ log'[Len(log')] \in {"No next button found, stopping",
                                     "Error clicking next button"}]_vars

\* The pagination reported more than 5 pages, every click went through, and the loop
\* ended after the cards of page 5.
C25_Witness ==
    /\ pc = "scraped"
    /\ total_pages > MaxPages
    /\ page_num = MaxPages
    /\ ~page_had_existing
    /\ Len(site) > PageSize * MaxPages
    /\ Len(observed) = PageSize * MaxPages
    /\ log[Len(log)] = "Navigating to next page"

\* C26: the page loop asks for no further page once a page has yielded no card, once the
\* page read is the 5th, or once a known event has been observed.
C26_NoRequestAfterEmptyPage ==
    [][pc = "page_end"
          /\ (PageCards(site, page_num) = <<>> \/ page_num = MaxPages \/ page_had_existing)
       => requested' <= requested]_vars

(***************************************************************************)
(* The reads and the writes of the file within a run.  Each open of the    *)
(* file for reading is followed by one message: that of                    *)
(* _load_existing_events or that of generate_ics.                          *)
(***************************************************************************)
LoadMessages ==
    {"Loaded existing events", "No existing ICS file found", "Error reading existing ICS file"}

ExistingMessages ==
    {"Preserved existing events", "No existing calendar file found",
     "Could not load existing events"}

\* How many times the run has opened the file for reading.
ReadCount == Cardinality({i \in 1..Len(log) : log[i] \in LoadMessages \cup ExistingMessages})

InRun == pc # "idle"

\* C27: within one run the file is read once, before any existence check, and written
\* once, after the whole scrape: the file does not change while pages are scraped, and
\* the run opens the file for reading no second time.
C27_ReadOnceWrittenOnce ==
    /\ [](InRun => log[1] \in LoadMessages /\ ReadCount = 1)
    /\ [][file' # file => pc = "scraped" /\ pc' = "done"]_vars

\* C27, amended: within one run the file is read twice and written once.  The first
\* read is at construction, before any existence check, and is the only one until the
\* scrape has finished; the second is in generate_ics, in the same call as the only
\* write, and its records are written back; a run that ends without generate_ics reads
\* once and writes nothing.
C27_ReadTwiceWrittenOnce ==
    /\ [](InRun => log[1] \in LoadMessages)
    /\ [](InRun /\ pc # "done" => ReadCount = 1)
    /\ [](pc = "done" => ReadCount = 2 /\ log[Len(log)] \in ExistingMessages)
    /\ [](pc = "done" /\ IsGenerate /\ call.before.st = "ok"
              => IsSubsequence(RecordsOf(call.before), RecordsOf(file)))
    /\ [][file' # file => pc = "scraped" /\ pc' = "done"]_vars

\* A run that found a file read it at construction and again in generate_ics, and wrote
\* new events after it had observed cards.
C27_Witness ==
    /\ pc = "done" /\ IsGenerate /\ call.new_count > 0
    /\ log[1] = "Loaded existing events"
    /\ log[Len(log)] = "Preserved existing events"
    /\ file # call.before

(***************************************************************************)
(* The dicts generate_ics cannot turn into a record.                       *)
(***************************************************************************)
\* Whether a dict cannot be turned into a record: a key is not there, its begin or its
\* end is missing, or its end is before its begin.
CannotBeRecord(event_data) ==
    \/ ~(EventKeys \subseteq DOMAIN event_data)
    \/ event_data.start = None
    \/ event_data.end = None
    \/ Before(event_data.end, event_data.start)

\* The dicts of a list that can be turned into a record, in their order.
RECURSIVE CanBeRecords(_)
CanBeRecords(newEvents) ==
    IF newEvents = <<>> THEN <<>>
    ELSE (IF CannotBeRecord(Head(newEvents)) THEN <<>> ELSE <<Head(newEvents)>>)
             \o CanBeRecords(Tail(newEvents))

\* C28: record failures inside generate_ics are isolated.  A dict of newEvents that
\* cannot be turned into a record is skipped and not counted: the call counts and writes
\* what it counts and writes for the list without such dicts, the other new events and
\* all the records it read; and no new record with an end before its start is written.
C28_FailedRecordsSkipped ==
    IsGenerate =>
        /\ call.new_count = Len(CanBeRecords(call.newEvents))
        /\ \E order \in IterationOrders(Len(BuildCalendar(CanBeRecords(call.newEvents), 1,
                                                          BuildStart).events)) :
               file = GenerateIcs(CanBeRecords(call.newEvents), call.before, order).file
        /\ \A i \in 1..Len(call.newEvents) :
               LET e == call.newEvents[i]
               IN  /\ EventKeys \subseteq DOMAIN e
                   /\ e.start # None /\ e.end # None
                   /\ Before(e.end, e.start)
                   => ~HasInterval(file, e.start, e.end)

(***************************************************************************)
(* The end of main().                                                      *)
(***************************************************************************)
\* C29: when a run accepts no new event and its snapshot is empty, main exits with a
\* failure status without calling generate_ics and leaves the file as it is; in every
\* other case generate_ics is called, once, with the events of the run, and the records
\* the file held are written back.
C29_ExitOrGenerateOnce ==
    /\ [][pc = "scraped" /\ pc' # "scraped"
          => IF all_events = <<>> /\ existing_events = {}
             THEN pc' = "exit1" /\ file' = file /\ call' = call
             ELSE /\ pc' = "done"
                  /\ call'.op = "generate_ics" /\ call'.newEvents = all_events
                  /\ IsSubsequence(RecordsOf(file), RecordsOf(file'))]_vars
    /\ [][file' # file \/ (call' # call /\ call'.op = "generate_ics")
          => pc = "scraped" /\ pc' = "done"]_vars

\* C29, amended: as C29, the records being written back when the file could be read; a
\* file that is there and cannot be read is written with the new events only.
C29_ExitOrGenerateOnceReadable ==
    /\ [][pc = "scraped" /\ pc' # "scraped"
          => IF all_events = <<>> /\ existing_events = {}
             THEN pc' = "exit1" /\ file' = file /\ call' = call
             ELSE /\ pc' = "done"
                  /\ call'.op = "generate_ics" /\ call'.newEvents = all_events
                  /\ IF Readable(file)
                     THEN IsSubsequence(RecordsOf(file), RecordsOf(file'))
                     ELSE Len(RecordsOf(file')) <= Len(all_events)]_vars
    /\ [][file' # file \/ (call' # call /\ call'.op = "generate_ics")
          => pc = "scraped" /\ pc' = "done"]_vars

\* A run that accepted no event, with a snapshot that is not empty, called generate_ics
\* and the file holds the records it held.
C29_Witness ==
    /\ pc = "done" /\ IsGenerate
    /\ call.newEvents = <<>>
    /\ existing_events # {}
    /\ RecordsOf(file) = RecordsOf(call.before)
    /\ RecordsOf(file) # <<>>

(***************************************************************************)
(* The length of an interval whose end is a time only.                     *)
(***************************************************************************)
\* C30: a text whose end segment is a time only and that parses yields an interval
\* with start <= end < start + 24 hours, as instants, also on the days on which the
\* clocks of America/Los_Angeles change.
C30_TimeOnlyEndWithinADay ==
    IsTimeOnlyRange /\ call.ret.ok =>
        /\ ElapsedMinutes(call.ret.start, call.ret.end) >= 0
        /\ ElapsedMinutes(call.ret.start, call.ret.end) < 24 * 60

====
